---- MODULE Spec2Model ----
(***************************************************************************)
(* Model of multi_device_proxy.py: the device Supervisor (device_monitor,  *)
(* reap_dead_tasks, manage_device_connections), the Sessions               *)
(* (MouseProxy.run, KeyboardProxy.run) and the two translators.            *)
(*                                                                         *)
(* Time.  The code reads time.time() and only ever compares                *)
(* "current_time - <stored time>" with a window.  A stored time is kept    *)
(* here as its age (current time minus the stored time) in units of 10 ms, *)
(* saturated at the largest window it is compared with; the passing of     *)
(* time is the action Advance.                                             *)
(*                                                                         *)
(* Scheduling.  The program is one asyncio loop: a task runs from one      *)
(* await to the next without interleaving, so every action below is the    *)
(* code between two suspension points.                                     *)
(***************************************************************************)
EXTENDS Integers, Sequences, FiniteSets, TLC

\* ---------------------------------------------------------------- bounds
NumPaths == 2            \* input device paths /dev/input/event1..NumPaths
MaxDelay == 5            \* largest single step of the clock, in 10 ms units
MaxHeld == 2             \* keys held together in SpecShift
MaxSideButtons == 1      \* buttons other than BTN_LEFT used in one run

\* ------------------------------------------------------ program constants
ESHUTDOWN == 108         \* errno tested by write_report
DebounceWindow == 1      \* 0.01 s
AccidentalWindow == 3    \* 0.03 s
StabilizeWindow == 5     \* 0.05 s
DragStartWindow == 10    \* 0.1 s
DragMoveCount == 3       \* consecutive_movement_count > 3
MouseIndexMAX == 7       \* MouseIndex.MAX, the last name bound to range(8)
ReportKeySlots == 6      \* pressed_hid_codes[:6]
shift_bit == 34          \* self.shift_bit = 0b00100010
LeftShiftOnly == 2       \* 0x02
REMAP_ENABLED == TRUE    \* module global, line 22

\* ------------------------------------------------------------ bit helpers
Min(a, b) == IF a < b THEN a ELSE b

RECURSIVE BitAnd(_, _)
BitAnd(a, b) ==
    IF a = 0 \/ b = 0 THEN 0
    ELSE (a % 2) * (b % 2) + 2 * BitAnd(a \div 2, b \div 2)

RECURSIVE BitOr(_, _)
BitOr(a, b) ==
    IF a = 0 THEN b
    ELSE IF b = 0 THEN a
    ELSE (IF (a % 2) + (b % 2) > 0 THEN 1 ELSE 0) + 2 * BitOr(a \div 2, b \div 2)

\* x & ~mask on an 8-bit value
BitClear(a, mask) == BitAnd(a, 255 - mask)

Pow2(n) == IF n = 0 THEN 1 ELSE IF n = 1 THEN 2 ELSE IF n = 2 THEN 4
           ELSE IF n = 3 THEN 8 ELSE IF n = 4 THEN 16 ELSE IF n = 5 THEN 32
           ELSE IF n = 6 THEN 64 ELSE 128

Zeros8 == <<0, 0, 0, 0, 0, 0, 0, 0>>

\* ======================================================== MouseProxy ====
MouseButtons == {"BTN_LEFT", "BTN_RIGHT", "BTN_MIDDLE", "BTN_SIDE", "BTN_EXTRA"}
UnknownButton == "BTN_TASK"
ButtonCodes == MouseButtons \cup {UnknownButton}
NoEntry == [present |-> FALSE]

\* MouseProxy.__init__ + reset_state.  last_movement_time starts at 0, i.e.
\* an age beyond every window.  movement_history, button_press_start_time and
\* last_button_event_time are written but never read by run(); they are not
\* kept.
MouseInitState ==
    [button_left |-> 0, button_right |-> 0, button_center |-> 0,
     back |-> 0, forward |-> 0, btn |-> 0,
     move_x |-> 0, move_y |-> 0, scroll_y |-> 0,
     button_state_buffer |-> [c \in ButtonCodes |-> NoEntry],
     button_debounce_buffer |-> [c \in ButtonCodes |-> NoEntry],
     drag_mode |-> FALSE,
     movement_age |-> DragStartWindow,
     consecutive_movement_count |-> 0]

MouseBtnOr(m) ==
    BitOr(BitOr(BitOr(BitOr(m.button_left, m.button_right), m.button_center),
                m.back), m.forward)

\* lines 219-242: the per-button update and the aggregate mask
ApplyButton(m, code, is_press) ==
    LET buf == [m.button_state_buffer EXCEPT
                    ![code] = [present |-> TRUE, state |-> is_press]]
        m1 == IF code = "BTN_LEFT"
                 THEN [m EXCEPT !.button_state_buffer = buf,
                                !.button_left = IF is_press THEN 1 ELSE 0]
              ELSE IF code = "BTN_RIGHT"
                 THEN [m EXCEPT !.button_state_buffer = buf,
                                !.button_right = IF is_press THEN Pow2(1) ELSE 0]
              ELSE IF code = "BTN_MIDDLE"
                 THEN [m EXCEPT !.button_state_buffer = buf,
                                !.button_center = IF is_press THEN Pow2(2) ELSE 0]
              ELSE IF code = "BTN_SIDE"
                 THEN [m EXCEPT !.button_state_buffer = buf,
                                !.back = IF is_press THEN Pow2(3) ELSE 0]
              ELSE IF code = "BTN_EXTRA"
                 THEN [m EXCEPT !.button_state_buffer = buf,
                                !.forward = IF is_press THEN Pow2(4) ELSE 0]
              ELSE m
    IN [m1 EXCEPT !.btn = MouseBtnOr(m1)]

\* MouseProxy.handle_key_event
handle_key_event(m, ev) ==
    LET is_press == (ev.value = 1)
        deb == m.button_debounce_buffer[ev.code]
        debounced == deb.present /\ deb.age < DebounceWindow /\ deb.state = is_press
        m1 == [m EXCEPT !.button_debounce_buffer[ev.code] =
                            [present |-> TRUE, age |-> 0, state |-> is_press]]
        was_dragging == m.drag_mode
        left == (ev.code = "BTN_LEFT")
        \* lines 193-210
        accidental == left /\ ~is_press /\ m1.drag_mode
                           /\ m1.movement_age < AccidentalWindow
        m2 == IF left /\ is_press
                 THEN IF m1.movement_age < DragStartWindow
                         THEN [m1 EXCEPT !.drag_mode = TRUE] ELSE m1
              ELSE IF left
                 THEN [m1 EXCEPT !.drag_mode = FALSE,
                                 !.consecutive_movement_count = 0]
              ELSE m1
        \* lines 213-217
        stabilized == was_dragging /\ left /\ ~is_press
                          /\ m.movement_age < StabilizeWindow
    IN IF debounced THEN m
       ELSE IF accidental THEN m1
       ELSE IF stabilized THEN m2
       ELSE ApplyButton(m2, ev.code, is_press)

\* lines 272-296: REL_X and REL_Y share the movement bookkeeping
NoteMovement(m) ==
    LET m1 == [m EXCEPT !.movement_age = 0]
        held == m1.button_state_buffer["BTN_LEFT"].present
                  /\ m1.button_state_buffer["BTN_LEFT"].state
        n == Min(m1.consecutive_movement_count + 1, DragMoveCount + 1)
    IN IF held
          THEN [m1 EXCEPT !.consecutive_movement_count = n,
                          !.drag_mode = IF n > DragMoveCount THEN TRUE ELSE @]
          ELSE m1

\* handle_rel_event that adds a value to the delta it holds
handle_rel_event_sum(m, ev) ==
    IF ev.code = "REL_X" THEN NoteMovement([m EXCEPT !.move_x = @ + ev.value])
    ELSE IF ev.code = "REL_Y" THEN NoteMovement([m EXCEPT !.move_y = @ + ev.value])
    ELSE IF ev.code = "REL_WHEEL" THEN [m EXCEPT !.scroll_y = @ + ev.value]
    ELSE m

\* MouseProxy.handle_rel_event
handle_rel_event(m, ev) ==
    IF ev.code = "REL_X" THEN NoteMovement([m EXCEPT !.move_x = ev.value])
    ELSE IF ev.code = "REL_Y" THEN NoteMovement([m EXCEPT !.move_y = ev.value])
    ELSE IF ev.code = "REL_WHEEL" THEN [m EXCEPT !.scroll_y = ev.value]
    ELSE m

\* update_state that writes each delta high byte first
MouseReport_swapped(m) ==
    [i \in 1..MouseIndexMAX |->
        CASE i = 1 -> m.btn
          [] i = 2 -> (m.move_x \div 256) % 256
          [] i = 3 -> m.move_x % 256
          [] i = 4 -> (m.move_y \div 256) % 256
          [] i = 5 -> m.move_y % 256
          [] i = 6 -> (m.scroll_y \div 256) % 256
          [] i = 7 -> m.scroll_y % 256
          [] OTHER -> 0]

\* MouseProxy.update_state, lines 303-310: bytearray(MouseIndex.MAX) with
\* the fields at TIP_SW = 0 .. WHEEL_MSB = 6 (sequence indices 1..7)
MouseReport(m) ==
    [i \in 1..MouseIndexMAX |->
        CASE i = 1 -> m.btn
          [] i = 2 -> m.move_x % 256
          [] i = 3 -> (m.move_x \div 256) % 256
          [] i = 4 -> m.move_y % 256
          [] i = 5 -> (m.move_y \div 256) % 256
          [] i = 6 -> m.scroll_y % 256
          [] i = 7 -> (m.scroll_y \div 256) % 256
          [] OTHER -> 0]

\* MouseProxy.restore_button_state.  The age test of line 252 is taken as
\* satisfied for every buffered button (the buffer is empty whenever
\* connect_device runs: a proxy connects once and run() leaves after a
\* disconnect).
restore_button_state(m) ==
    LET on(c) == m.button_state_buffer[c].present /\ m.button_state_buffer[c].state
        m1 == [m EXCEPT !.button_left = IF on("BTN_LEFT") THEN 1 ELSE @,
                        !.button_right = IF on("BTN_RIGHT") THEN Pow2(1) ELSE @,
                        !.button_center = IF on("BTN_MIDDLE") THEN Pow2(2) ELSE @,
                        !.back = IF on("BTN_SIDE") THEN Pow2(3) ELSE @,
                        !.forward = IF on("BTN_EXTRA") THEN Pow2(4) ELSE @]
    IN [m1 EXCEPT !.btn = MouseBtnOr(m1)]

\* The passing of d*10 ms as seen by one MouseProxy
MouseAge(m, d) ==
    [m EXCEPT !.movement_age = Min(@ + d, DragStartWindow),
              !.button_debounce_buffer =
                  [c \in ButtonCodes |->
                      IF @[c].present
                         THEN [@[c] EXCEPT !.age = Min(@ + d, DebounceWindow)]
                         ELSE @[c]]]

\* write_report that re-raises every OSError
WriteRaises_all(errno) == errno # 0

\* write_report that swallows every OSError
WriteRaises_none(errno) == FALSE

\* write_report (both classes): the outcome of one open+write is an input
\* errno (0 = written); 108 is re-raised, anything else is logged and dropped.
WriteRaises(errno) == errno = ESHUTDOWN

\* One iteration of the body of MouseProxy.run's "async for" (lines 161-166).
\* Result: the new translator state, the reports handed to write_report and
\* whether an OSError left the loop body.
MouseHandle(m, ev, errno) ==
    IF ev.type = "EV_KEY"
       THEN [tr |-> handle_key_event(m, ev), reports |-> <<>>, raised |-> FALSE]
    ELSE IF ev.type = "EV_REL"
       THEN [tr |-> handle_rel_event(m, ev), reports |-> <<>>, raised |-> FALSE]
    ELSE IF ev.type = "EV_SYN" /\ ev.code = "SYN_REPORT"
       THEN IF WriteRaises(errno)
               THEN [tr |-> m, reports |-> <<MouseReport(m)>>, raised |-> TRUE]
               ELSE [tr |-> [m EXCEPT !.move_x = 0, !.move_y = 0, !.scroll_y = 0],
                     reports |-> <<MouseReport(m)>>, raised |-> FALSE]
    ELSE [tr |-> m, reports |-> <<>>, raised |-> FALSE]

\* ====================================================== KeyboardProxy ====
\* hid_keys.hid_key_map: key name -> HID usage code (USB HID usage table)
hid_keys ==
    [k \in {"KEY_A", "KEY_B", "KEY_C", "KEY_D", "KEY_E", "KEY_F", "KEY_G",
            "KEY_1", "KEY_2", "KEY_3", "KEY_4", "KEY_5", "KEY_6", "KEY_7",
            "KEY_8", "KEY_9", "KEY_0", "KEY_MINUS", "KEY_EQUAL",
            "KEY_LEFTBRACE", "KEY_RIGHTBRACE", "KEY_BACKSLASH",
            "KEY_SEMICOLON", "KEY_APOSTROPHE", "KEY_GRAVE", "KEY_RO",
            "KEY_YEN"} |->
        CASE k = "KEY_A" -> 4 [] k = "KEY_B" -> 5 [] k = "KEY_C" -> 6
          [] k = "KEY_D" -> 7 [] k = "KEY_E" -> 8 [] k = "KEY_F" -> 9
          [] k = "KEY_G" -> 10
          [] k = "KEY_1" -> 30 [] k = "KEY_2" -> 31 [] k = "KEY_3" -> 32
          [] k = "KEY_4" -> 33 [] k = "KEY_5" -> 34 [] k = "KEY_6" -> 35
          [] k = "KEY_7" -> 36 [] k = "KEY_8" -> 37 [] k = "KEY_9" -> 38
          [] k = "KEY_0" -> 39
          [] k = "KEY_MINUS" -> 45 [] k = "KEY_EQUAL" -> 46
          [] k = "KEY_LEFTBRACE" -> 47 [] k = "KEY_RIGHTBRACE" -> 48
          [] k = "KEY_BACKSLASH" -> 49 [] k = "KEY_SEMICOLON" -> 51
          [] k = "KEY_APOSTROPHE" -> 52 [] k = "KEY_GRAVE" -> 53
          [] k = "KEY_RO" -> 135 [] k = "KEY_YEN" -> 137]

\* hid_keys.get(keycode, 0)
HidGet(keycode) == IF keycode \in DOMAIN hid_keys THEN hid_keys[keycode] ELSE 0

\* self.modifiers_map
modifiers_map ==
    [k \in {"KEY_LEFTCTRL", "KEY_LEFTSHIFT", "KEY_LEFTALT", "KEY_LEFTMETA",
            "KEY_RIGHTCTRL", "KEY_RIGHTSHIFT", "KEY_RIGHTALT", "KEY_RIGHTMETA"} |->
        CASE k = "KEY_LEFTCTRL" -> 0 [] k = "KEY_LEFTSHIFT" -> 1
          [] k = "KEY_LEFTALT" -> 2 [] k = "KEY_LEFTMETA" -> 3
          [] k = "KEY_RIGHTCTRL" -> 4 [] k = "KEY_RIGHTSHIFT" -> 5
          [] k = "KEY_RIGHTALT" -> 6 [] k = "KEY_RIGHTMETA" -> 7]

\* KeyboardProxy.reset_state
KbdInitState ==
    [modifier |-> 0, pressed_keys |-> {},
     is_shift_up |-> FALSE, is_shift_down |-> FALSE]

\* KeyboardProxy.remap: the target key, and the flag the rule sets
RemapRule(keycode, modifier) ==
    LET plain(t) == [key |-> t, up |-> FALSE, down |-> FALSE]
        shup(t) == [key |-> t, up |-> TRUE, down |-> FALSE]
        shdown(t) == [key |-> t, up |-> FALSE, down |-> TRUE]
    IN IF keycode = "KEY_LEFTBRACE" THEN plain("KEY_RIGHTBRACE")
       ELSE IF keycode = "KEY_RIGHTBRACE" THEN plain("KEY_BACKSLASH")
       ELSE IF BitAnd(modifier, shift_bit) # 0
          THEN IF keycode = "KEY_7" THEN plain("KEY_6")
               ELSE IF keycode = "KEY_8" THEN plain("KEY_APOSTROPHE")
               ELSE IF keycode = "KEY_9" THEN plain("KEY_8")
               ELSE IF keycode = "KEY_0" THEN plain("KEY_9")
               ELSE IF keycode = "KEY_EQUAL" THEN plain("KEY_SEMICOLON")
               ELSE IF keycode = "KEY_GRAVE" THEN plain("KEY_EQUAL")
               ELSE IF keycode = "KEY_MINUS" THEN plain("KEY_RO")
               ELSE IF keycode = "KEY_2" THEN shdown("KEY_LEFTBRACE")
               ELSE IF keycode = "KEY_6" THEN shdown("KEY_EQUAL")
               ELSE IF keycode = "KEY_BACKSLASH" THEN plain("KEY_YEN")
               ELSE IF keycode = "KEY_SEMICOLON" THEN shdown("KEY_APOSTROPHE")
               ELSE IF keycode = "KEY_APOSTROPHE" THEN plain("KEY_2")
               ELSE plain(keycode)
          ELSE IF keycode = "KEY_APOSTROPHE" THEN shup("KEY_7")
               ELSE IF keycode = "KEY_GRAVE" THEN shup("KEY_LEFTBRACE")
               ELSE IF keycode = "KEY_EQUAL" THEN shup("KEY_MINUS")
               ELSE IF keycode = "KEY_BACKSLASH" THEN plain("KEY_RO")
               ELSE plain(keycode)

\* remap that runs the rules again on the key a rule produced
remap_chained(keycode, modifier) ==
    IF ~REMAP_ENABLED
       THEN [code |-> HidGet(keycode), up |-> FALSE, down |-> FALSE]
    ELSE IF keycode \notin DOMAIN hid_keys
       THEN [code |-> 0, up |-> FALSE, down |-> FALSE]
    ELSE LET r == RemapRule(keycode, modifier)
             r2 == RemapRule(r.key, modifier)
         IN [code |-> HidGet(r2.key), up |-> r.up, down |-> r.down]

\* remap whose KEY_2 rule raises shift-down whether or not Shift is held
remap_ungated(keycode, modifier) ==
    IF keycode = "KEY_2"
       THEN [code |-> HidGet("KEY_LEFTBRACE"), up |-> FALSE, down |-> TRUE]
    ELSE IF keycode \notin DOMAIN hid_keys
       THEN [code |-> 0, up |-> FALSE, down |-> FALSE]
    ELSE LET r == RemapRule(keycode, modifier)
         IN [code |-> HidGet(r.key), up |-> r.up, down |-> r.down]

\* KeyboardProxy.remap: returned usage code and the flags it raised
remap(keycode, modifier) ==
    IF ~REMAP_ENABLED
       THEN [code |-> HidGet(keycode), up |-> FALSE, down |-> FALSE]
    ELSE IF keycode \notin DOMAIN hid_keys
       THEN [code |-> 0, up |-> FALSE, down |-> FALSE]
    ELSE LET r == RemapRule(keycode, modifier)
         IN [code |-> HidGet(r.key), up |-> r.up, down |-> r.down]

NonZero(c) == c # 0

\* lines 502-504: byte 0 and the key slots of the report
KbdReport(modifier, pressed_hid_codes) ==
    LET head == SubSeq(pressed_hid_codes, 1,
                       Min(ReportKeySlots, Len(pressed_hid_codes)))
        codes == SelectSeq(head, NonZero)
    IN SubSeq(<<modifier, 0>> \o codes \o Zeros8, 1, 8)

\* update_state without the shift-down branch of lines 498-499
update_state_keepshift(k, order, errnos) ==
    LET rs(i) == remap(order[i], k.modifier)
        pressed_hid_codes == [i \in 1..Len(order) |-> rs(i).code]
        up == \E i \in 1..Len(order) : rs(i).up
        down == \E i \in 1..Len(order) : rs(i).down
        k1 == [k EXCEPT !.is_shift_up = up, !.is_shift_down = down]
        first == [Zeros8 EXCEPT ![1] = LeftShiftOnly]
        modifier == IF up THEN BitOr(k.modifier, LeftShiftOnly) ELSE k.modifier
        final == KbdReport(modifier, pressed_hid_codes)
    IN IF up
          THEN IF WriteRaises(errnos[1])
                  THEN [tr |-> k1, reports |-> <<first>>, raised |-> TRUE]
                  ELSE [tr |-> k1, reports |-> <<first, final>>,
                        raised |-> WriteRaises(errnos[2])]
          ELSE [tr |-> k1, reports |-> <<final>>,
                raised |-> WriteRaises(errnos[1])]

\* update_state that skips the intermediate report of lines 493-497
update_state_single(k, order, errnos) ==
    LET rs(i) == remap(order[i], k.modifier)
        pressed_hid_codes == [i \in 1..Len(order) |-> rs(i).code]
        up == \E i \in 1..Len(order) : rs(i).up
        down == \E i \in 1..Len(order) : rs(i).down
        k1 == [k EXCEPT !.is_shift_up = up, !.is_shift_down = down]
        modifier == IF up THEN BitOr(k.modifier, LeftShiftOnly)
                    ELSE IF down THEN BitClear(k.modifier, shift_bit)
                    ELSE k.modifier
    IN [tr |-> k1, reports |-> <<KbdReport(modifier, pressed_hid_codes)>>,
        raised |-> WriteRaises(errnos[1])]

\* update_state without lines 486-487: the flags of earlier emissions stay set
update_state_sticky(k, order, errnos) ==
    LET rs(i) == remap(order[i], k.modifier)
        pressed_hid_codes == [i \in 1..Len(order) |-> rs(i).code]
        up == k.is_shift_up \/ \E i \in 1..Len(order) : rs(i).up
        down == k.is_shift_down \/ \E i \in 1..Len(order) : rs(i).down
        k1 == [k EXCEPT !.is_shift_up = up, !.is_shift_down = down]
        first == [Zeros8 EXCEPT ![1] = LeftShiftOnly]
        modifier == IF up THEN BitOr(k.modifier, LeftShiftOnly)
                    ELSE IF down THEN BitClear(k.modifier, shift_bit)
                    ELSE k.modifier
        final == KbdReport(modifier, pressed_hid_codes)
    IN IF up
          THEN IF WriteRaises(errnos[1])
                  THEN [tr |-> k1, reports |-> <<first>>, raised |-> TRUE]
                  ELSE [tr |-> k1, reports |-> <<first, final>>,
                        raised |-> WriteRaises(errnos[2])]
          ELSE [tr |-> k1, reports |-> <<final>>,
                raised |-> WriteRaises(errnos[1])]

\* KeyboardProxy.update_state.  order is the iteration order of the set
\* pressed_keys, errnos the outcome of the first and the second write.
update_state(k, order, errnos) ==
    LET rs(i) == remap(order[i], k.modifier)
        pressed_hid_codes == [i \in 1..Len(order) |-> rs(i).code]
        up == \E i \in 1..Len(order) : rs(i).up
        down == \E i \in 1..Len(order) : rs(i).down
        k1 == [k EXCEPT !.is_shift_up = up, !.is_shift_down = down]
        first == [Zeros8 EXCEPT ![1] = LeftShiftOnly]
        modifier == IF up THEN BitOr(k.modifier, LeftShiftOnly)
                    ELSE IF down THEN BitClear(k.modifier, shift_bit)
                    ELSE k.modifier
        final == KbdReport(modifier, pressed_hid_codes)
    IN IF up
          THEN IF WriteRaises(errnos[1])
                  THEN [tr |-> k1, reports |-> <<first>>, raised |-> TRUE]
                  ELSE [tr |-> k1, reports |-> <<first, final>>,
                        raised |-> WriteRaises(errnos[2])]
          ELSE [tr |-> k1, reports |-> <<final>>,
                raised |-> WriteRaises(errnos[1])]

\* KeyboardProxy.update_modifier
update_modifier(k, keycode, keystate, order, errnos) ==
    LET bit == Pow2(modifiers_map[keycode])
        k1 == IF keystate = 0
                 THEN [k EXCEPT !.modifier = BitClear(@, bit)]
                 ELSE [k EXCEPT !.modifier = BitOr(@, bit)]
    IN update_state(k1, order, errnos)

\* The iteration order of a key set under the ranking rank
OrderOf(keys, rank) ==
    LET In(x) == x \in keys IN SelectSeq(rank, In)

\* release that reports the held set as it was before the key was removed
release_stale(k, keycode, rank, errnos) ==
    IF keycode \in k.pressed_keys
       THEN LET k1 == [k EXCEPT !.pressed_keys = @ \ {keycode}]
                r == update_state(k, OrderOf(k.pressed_keys, rank), errnos)
            IN [r EXCEPT !.tr = k1]
       ELSE [tr |-> k, reports |-> <<>>, raised |-> FALSE]

\* KeyboardProxy.release
release(k, keycode, rank, errnos) ==
    IF keycode \in k.pressed_keys
       THEN LET k1 == [k EXCEPT !.pressed_keys = @ \ {keycode}]
            IN update_state(k1, OrderOf(k1.pressed_keys, rank), errnos)
       ELSE [tr |-> k, reports |-> <<>>, raised |-> FALSE]

\* press without the test of line 445
press_always(k, keycode, rank, errnos) ==
    LET k1 == [k EXCEPT !.pressed_keys = @ \cup {keycode}]
    IN update_state(k1, OrderOf(k1.pressed_keys, rank), errnos)

\* KeyboardProxy.press
press(k, keycode, rank, errnos) ==
    IF keycode \notin k.pressed_keys
       THEN LET k1 == [k EXCEPT !.pressed_keys = @ \cup {keycode}]
            IN update_state(k1, OrderOf(k1.pressed_keys, rank), errnos)
       ELSE [tr |-> k, reports |-> <<>>, raised |-> FALSE]

\* One iteration of the body of KeyboardProxy.run's "async for"
\* (lines 403-417)
KbdHandle(k, ev, rank, errnos) ==
    IF ev.type # "EV_KEY"
       THEN [tr |-> k, reports |-> <<>>, raised |-> FALSE]
    ELSE IF ev.keycode \in DOMAIN modifiers_map
       THEN update_modifier(k, ev.keycode, ev.keystate,
                            OrderOf(k.pressed_keys, rank), errnos)
    ELSE IF ev.keystate = 0 THEN release(k, ev.keycode, rank, errnos)
    ELSE IF ev.keystate = 1 THEN press(k, ev.keycode, rank, errnos)
    ELSE [tr |-> k, reports |-> <<>>, raised |-> FALSE]

\* ================================================ Supervisor and Sessions
\* /dev/input/event<p> and /dev/hidg<i>
Paths == 1..NumPaths
KEYBOARD_HID_OUTPUTS == 0..0
MOUSE_HID_OUTPUTS == 1..2
\* A task is named by its device path and a slot number free at its creation
TaskSlots == 1..3
TaskIds == Paths \X TaskSlots
DeviceKinds == {"keyboard", "mouse"}
Errnos == {0, 5, ESHUTDOWN}

VARIABLES
    devices,                   \* kernel: path -> "none" or the kind its name matches
    cached_device_paths,       \* device_monitor locals
    cached_devices,            \* path -> kind of the InputDevice opened at refresh
    managed_keyboards,         \* path -> [task, hid_output]
    managed_mice,
    available_keyboard_hids,
    available_mouse_hids,
    tasks,                     \* task id -> the proxy object and its run() coroutine
    last                       \* what the last step of a Session did (history)

vars == <<devices, cached_device_paths, cached_devices, managed_keyboards,
          managed_mice, available_keyboard_hids, available_mouse_hids,
          tasks, last>>

supervisor_vars == <<cached_device_paths, cached_devices, managed_keyboards,
                     managed_mice, available_keyboard_hids, available_mouse_hids>>

NoStep == [kind |-> "none"]
NoFrame == [x |-> 0, y |-> 0, wheel |-> 0, rewritten |-> FALSE]

Restrict(f, S) == [x \in S |-> f[x]]
Range(f) == {f[x] : x \in DOMAIN f}

\* proxy_class(input_device_path, hid_output_path, loop) and
\* asyncio.create_task(proxy.run()): the task has not run yet.  frame is a
\* history field: the last EV_REL value per axis since the last SYN_REPORT,
\* and whether some axis got a second non-zero value in that time.
NewTask(cls, path, hid) ==
    [cls |-> cls, input_device_path |-> path, hid_output_path |-> hid,
     pc |-> "start", device |-> "none", cancelled |-> FALSE,
     tr |-> IF cls = "mouse" THEN MouseInitState ELSE KbdInitState,
     frame |-> NoFrame]

LiveHandle(d) == d \in {"grabbed", "ungrabbed"}

\* reap_dead_tasks without line 814: the endpoint is not given back
reap_dead_tasks_leak(managed_devices, available_hids, T) ==
    LET dead_tasks_paths ==
            {path \in DOMAIN managed_devices :
                T[managed_devices[path].task].pc = "done"}
    IN [managed |-> Restrict(managed_devices,
                             DOMAIN managed_devices \ dead_tasks_paths),
        available |-> available_hids,
        reaped |-> {managed_devices[path].task : path \in dead_tasks_paths}]

\* reap_dead_tasks without the pop of line 811: the endpoint is given back
\* but the finished entry stays in the managed map
reap_dead_tasks_keep(managed_devices, available_hids, T) ==
    LET dead_tasks_paths ==
            {path \in DOMAIN managed_devices :
                T[managed_devices[path].task].pc = "done"}
    IN [managed |-> managed_devices,
        available |-> available_hids \cup
                        {managed_devices[path].hid_output : path \in dead_tasks_paths},
        reaped |-> {}]

\* reap_dead_tasks
reap_dead_tasks(managed_devices, available_hids, T) ==
    LET dead_tasks_paths ==
            {path \in DOMAIN managed_devices :
                T[managed_devices[path].task].pc = "done"}
    IN [managed |-> Restrict(managed_devices,
                             DOMAIN managed_devices \ dead_tasks_paths),
        available |-> available_hids \cup
                        {managed_devices[path].hid_output : path \in dead_tasks_paths},
        reaped |-> {managed_devices[path].task : path \in dead_tasks_paths}]

\* manage_device_connections, lines 822-831: the loop over the new paths, in
\* any iteration order of the set and with any element popped from
\* available_hids.  Result: every possible [assigned, available].
RECURSIVE AddNew(_, _, _)
AddNew(todo, assigned, available_hids) ==
    IF todo = {} THEN {[assigned |-> assigned, available |-> available_hids]}
    ELSE UNION {
           IF available_hids = {}
              THEN AddNew(todo \ {path}, assigned, available_hids)
              ELSE UNION {AddNew(todo \ {path},
                                 [q \in DOMAIN assigned \cup {path} |->
                                     IF q = path THEN output_path ELSE assigned[q]],
                                 available_hids \ {output_path})
                          : output_path \in available_hids}
           : path \in todo}

EmptyFn == [x \in {} |-> 0]

\* manage_device_connections without lines 836-837: the endpoint of an absent
\* device is freed but its Session is neither dropped nor cancelled
manage_device_connections_nocancel(current_paths, managed_devices, available_hids) ==
    LET managed_paths == DOMAIN managed_devices
        removed == managed_paths \ current_paths
    IN {[assigned |-> r.assigned,
         removed |-> {},
         available |-> r.available \cup
                         {managed_devices[path].hid_output : path \in removed}]
        : r \in AddNew(current_paths \ managed_paths, EmptyFn, available_hids)}

\* manage_device_connections without line 838: the Session of an absent
\* device is dropped and cancelled but its endpoint is not given back
manage_device_connections_noreturn(current_paths, managed_devices, available_hids) ==
    LET managed_paths == DOMAIN managed_devices
        removed == managed_paths \ current_paths
    IN {[assigned |-> r.assigned,
         removed |-> removed,
         available |-> r.available]
        : r \in AddNew(current_paths \ managed_paths, EmptyFn, available_hids)}

\* manage_device_connections without the loop of lines 822-831: no Session
\* is started for a new path
manage_device_connections_nonew(current_paths, managed_devices, available_hids) ==
    LET managed_paths == DOMAIN managed_devices
        removed == managed_paths \ current_paths
    IN {[assigned |-> EmptyFn,
         removed |-> removed,
         available |-> available_hids \cup
                         {managed_devices[path].hid_output : path \in removed}]}

\* manage_device_connections.  current_paths: the class's enumerated paths.
\* Result: every possible [assigned (new path -> endpoint), removed (paths
\* whose task is cancelled), available].
manage_device_connections(current_paths, managed_devices, available_hids) ==
    LET managed_paths == DOMAIN managed_devices
        removed == managed_paths \ current_paths
    IN {[assigned |-> r.assigned,
         removed |-> removed,
         available |-> r.available \cup
                         {managed_devices[path].hid_output : path \in removed}]
        : r \in AddNew(current_paths \ managed_paths, EmptyFn, available_hids)}

\* The name of the task created for path p: the lowest slot no task of T
\* on that path uses.
FreshId(p, T) ==
    <<p, CHOOSE n \in TaskSlots :
            /\ <<p, n>> \notin DOMAIN T
            /\ \A m \in TaskSlots : m < n => <<p, m>> \in DOMAIN T>>

\* the tasks the managed maps name
ManagedTasks ==
    {managed_keyboards[p].task : p \in DOMAIN managed_keyboards} \cup
    {managed_mice[p].task : p \in DOMAIN managed_mice}

\* device_monitor, one pass of the "while True" body (lines 776-804).
\* failed: the paths whose evdev.InputDevice(path) raises in this pass.
\* The pass runs only when the loop's ready queue is empty: a task created or
\* cancelled in the previous pass is scheduled before the 5 s timer.
Tick(failed) ==
    /\ \A t \in DOMAIN tasks : tasks[t].pc # "start" /\ ~tasks[t].cancelled
    /\ LET rk == reap_dead_tasks(managed_keyboards, available_keyboard_hids, tasks)
           rm == reap_dead_tasks(managed_mice, available_mouse_hids, tasks)
           current_device_paths == {p \in Paths : devices[p] # "none"}
           refresh == current_device_paths # cached_device_paths
           devs == IF refresh
                      THEN [p \in current_device_paths \ failed |-> devices[p]]
                      ELSE cached_devices
           current_keyboards == {p \in DOMAIN devs : devs[p] = "keyboard"}
           current_mice == {p \in DOMAIN devs : devs[p] = "mouse"}
           alive == Restrict(tasks, DOMAIN tasks \ (rk.reaped \cup rm.reaped))
       IN /\ failed \subseteq current_device_paths
          /\ failed # {} => refresh
          /\ \E mk \in manage_device_connections(current_keyboards, rk.managed,
                                                 rk.available),
                mm \in manage_device_connections(current_mice, rm.managed,
                                                 rm.available) :
               LET nk == DOMAIN mk.assigned
                   nm == DOMAIN mm.assigned
                   kid(p) == FreshId(p, alive)
                   mid(p) == FreshId(p, alive)
                   ids == {kid(p) : p \in nk} \cup {mid(p) : p \in nm}
                   gone == {rk.managed[p].task : p \in mk.removed} \cup
                           {rm.managed[p].task : p \in mm.removed}
               IN /\ managed_keyboards' =
                        [p \in (DOMAIN rk.managed \ mk.removed) \cup nk |->
                            IF p \in nk
                               THEN [task |-> kid(p), hid_output |-> mk.assigned[p]]
                               ELSE rk.managed[p]]
                  /\ managed_mice' =
                        [p \in (DOMAIN rm.managed \ mm.removed) \cup nm |->
                            IF p \in nm
                               THEN [task |-> mid(p), hid_output |-> mm.assigned[p]]
                               ELSE rm.managed[p]]
                  /\ available_keyboard_hids' = mk.available
                  /\ available_mouse_hids' = mm.available
                  /\ tasks' =
                        [t \in DOMAIN alive \cup ids |->
                            IF t \in DOMAIN alive
                               THEN IF t \in gone
                                       THEN [alive[t] EXCEPT !.cancelled = TRUE]
                                       ELSE alive[t]
                            ELSE IF \E p \in nk : kid(p) = t
                               THEN LET p == CHOOSE q \in nk : kid(q) = t
                                    IN NewTask("keyboard", p, mk.assigned[p])
                               ELSE LET p == CHOOSE q \in nm : mid(q) = t
                                    IN NewTask("mouse", p, mm.assigned[p])]
          /\ cached_devices' = devs
          /\ cached_device_paths' = IF refresh THEN current_device_paths
                                    ELSE cached_device_paths
    /\ last' = [kind |-> "tick", failed |-> failed,
                reaped |-> {t \in ManagedTasks : tasks[t].pc = "done"}]
    /\ UNCHANGED devices

\* ------------------------------------------------------------ environment
\* A device appears at a free path
Plug(p, kind) ==
    /\ devices[p] = "none"
    /\ devices' = [devices EXCEPT ![p] = kind]
    /\ last' = NoStep
    /\ UNCHANGED <<supervisor_vars, tasks>>

\* The device at p goes away; handles open on it are dead from now on
Unplug(p) ==
    /\ devices[p] # "none"
    /\ devices' = [devices EXCEPT ![p] = "none"]
    /\ tasks' = [t \in DOMAIN tasks |->
                    IF tasks[t].input_device_path = p /\ LiveHandle(tasks[t].device)
                       THEN [tasks[t] EXCEPT !.device = "dead"]
                       ELSE tasks[t]]
    /\ last' = NoStep
    /\ UNCHANGED supervisor_vars

\* --------------------------------------------------------------- Sessions
Runnable(t) == t \in DOMAIN tasks /\ ~tasks[t].cancelled

\* connect_device (both classes).  outcome: "open_fail" (InputDevice raises),
\* "grab_fail" (device.grab() raises after self.device was assigned), "ok".
connect_device(s, outcome) ==
    IF outcome = "ok"
       THEN [s EXCEPT !.device = "grabbed",
                      !.tr = IF s.cls = "mouse" THEN restore_button_state(@) ELSE @]
    ELSE IF outcome = "grab_fail" THEN [s EXCEPT !.device = "ungrabbed"]
    ELSE s

\* run(), from the top of "while True" to the next await (lines 155-160,
\* 397-402): entered when the task first runs and when sleep(5) returns.
Connect(t, outcome) ==
    /\ Runnable(t)
    /\ tasks[t].pc \in {"start", "sleep"}
    /\ LET s == tasks[t]
           p == s.input_device_path
       IN IF s.device # "none"
             THEN /\ outcome = "ok"
                  /\ tasks' = [tasks EXCEPT ![t].pc = "read"]
             ELSE /\ outcome # "open_fail" => devices[p] # "none"
                  /\ outcome = "ok" =>
                        \A u \in DOMAIN tasks \ {t} :
                            ~(tasks[u].input_device_path = p
                                /\ tasks[u].device = "grabbed")
                  /\ tasks' = [tasks EXCEPT ![t] =
                        [connect_device(s, outcome) EXCEPT
                            !.pc = IF outcome = "ok" THEN "read" ELSE "sleep"]]
    /\ last' = NoStep
    /\ UNCHANGED <<devices, supervisor_vars>>

\* except (OSError, asyncio.CancelledError): close the device and leave
\* (lines 167-173, 419-424)
CloseAndBreak(s) == [s EXCEPT !.device = "none", !.pc = "done"]

\* run() when CancelledError is thrown in at the await it is suspended on:
\* inside "async for" the except clause of lines 167-173, 419-424 runs; at
\* "await asyncio.sleep(5)" (lines 157, 399) no try block is open and the
\* exception leaves run() with self.device as it is
cancel_run(s) ==
    IF s.pc = "read" THEN CloseAndBreak(s) ELSE [s EXCEPT !.pc = "done"]

\* An event is read and handled by a MouseProxy (lines 160-173)
MouseEvent(t, ev, errno) ==
    /\ Runnable(t)
    /\ tasks[t].cls = "mouse" /\ tasks[t].pc = "read" /\ LiveHandle(tasks[t].device)
    /\ \E r \in {MouseHandle(tasks[t].tr, ev, errno)} :
       LET s == tasks[t]
           s1 == [s EXCEPT !.tr = r.tr,
                           !.frame =
                              IF ev.type = "EV_REL" /\ ev.code = "REL_X"
                                 THEN [@ EXCEPT !.x = ev.value,
                                                !.rewritten = @ \/ s.frame.x # 0]
                              ELSE IF ev.type = "EV_REL" /\ ev.code = "REL_Y"
                                 THEN [@ EXCEPT !.y = ev.value,
                                                !.rewritten = @ \/ s.frame.y # 0]
                              ELSE IF ev.type = "EV_REL" /\ ev.code = "REL_WHEEL"
                                 THEN [@ EXCEPT !.wheel = ev.value,
                                                !.rewritten = @ \/ s.frame.wheel # 0]
                              ELSE IF ev.type = "EV_SYN" /\ ev.code = "SYN_REPORT"
                                 THEN NoFrame
                              ELSE @]
       IN /\ tasks' = [tasks EXCEPT ![t] = IF r.raised THEN CloseAndBreak(s1) ELSE s1]
          /\ last' = [kind |-> "event", task |-> t, cls |-> "mouse",
                      hid |-> s.hid_output_path, ev |-> ev,
                      reports |-> r.reports,
                      frame |-> IF r.reports # <<>> THEN s.frame ELSE NoFrame,
                      errnos |-> IF r.reports # <<>> THEN <<errno>> ELSE <<>>,
                      raised |-> r.raised]
    /\ UNCHANGED <<devices, supervisor_vars>>

\* An event is read and handled by a KeyboardProxy (lines 402-424)
KbdEvent(t, ev, rank, errnos) ==
    /\ Runnable(t)
    /\ tasks[t].cls = "keyboard" /\ tasks[t].pc = "read"
    /\ LiveHandle(tasks[t].device)
    /\ \E r \in {KbdHandle(tasks[t].tr, ev, rank, errnos)} :
       LET s == tasks[t]
           n == Len(r.reports)
           s1 == [s EXCEPT !.tr = r.tr]
       IN /\ tasks' = [tasks EXCEPT ![t] = IF r.raised THEN CloseAndBreak(s1) ELSE s1]
          /\ last' = [kind |-> "event", task |-> t, cls |-> "keyboard",
                      hid |-> s.hid_output_path, ev |-> ev,
                      reports |-> r.reports,
                      order |-> IF n = 0 THEN <<>>
                                ELSE OrderOf(r.tr.pressed_keys, rank),
                      errnos |-> SubSeq(errnos, 1, n),
                      raised |-> r.raised]
    /\ UNCHANGED <<devices, supervisor_vars>>

\* async_read_loop raises OSError (lines 167-173, 419-424)
ReadError(t) ==
    /\ Runnable(t)
    /\ tasks[t].pc = "read"
    /\ tasks' = [tasks EXCEPT ![t] = CloseAndBreak(@)]
    /\ last' = NoStep
    /\ UNCHANGED <<devices, supervisor_vars>>

\* "except Exception" of the keyboard without the reset_state of line 427
DecodeError_keep(t) ==
    /\ Runnable(t)
    /\ tasks[t].pc = "read" /\ LiveHandle(tasks[t].device)
    /\ tasks' = [tasks EXCEPT ![t] =
                    IF @.cls = "mouse" THEN [@ EXCEPT !.pc = "done"] ELSE @]
    /\ last' = [kind |-> "decode_error", task |-> t, cls |-> tasks[t].cls,
                tr |-> tasks[t].tr]
    /\ UNCHANGED <<devices, supervisor_vars>>

\* Any other exception while an event is decoded: "except Exception"
\* (lines 174-176: the mouse leaves the loop; lines 425-427: the keyboard
\* resets its state and goes round "while True" with the device still set)
DecodeError(t) ==
    /\ Runnable(t)
    /\ tasks[t].pc = "read" /\ LiveHandle(tasks[t].device)
    /\ tasks' = [tasks EXCEPT ![t] =
                    IF @.cls = "mouse" THEN [@ EXCEPT !.pc = "done"]
                    ELSE [@ EXCEPT !.tr = KbdInitState]]
    /\ last' = [kind |-> "decode_error", task |-> t, cls |-> tasks[t].cls,
                tr |-> tasks[t].tr]
    /\ UNCHANGED <<devices, supervisor_vars>>

\* task.cancel() takes effect: CancelledError is thrown into run() at the
\* await it is suspended on.  In the read loop it is caught (device closed,
\* break); in asyncio.sleep(5) it leaves run(); a task that never ran ends
\* without running.  The finished task is referenced by nothing and goes.
DeliverCancel(t) ==
    /\ t \in DOMAIN tasks
    /\ tasks[t].cancelled
    /\ tasks' = Restrict(tasks, DOMAIN tasks \ {t})
    /\ last' = [kind |-> "cancel", task |-> t, cls |-> tasks[t].cls,
                at |-> tasks[t].pc, held |-> tasks[t].device,
                device |-> cancel_run(tasks[t]).device]
    /\ UNCHANGED <<devices, supervisor_vars>>

\* d*10 ms pass
Advance(d) ==
    /\ tasks' = [t \in DOMAIN tasks |->
                    IF tasks[t].cls = "mouse"
                       THEN [tasks[t] EXCEPT !.tr = MouseAge(@, d)]
                       ELSE tasks[t]]
    /\ tasks' # tasks
    /\ last' = NoStep
    /\ UNCHANGED <<devices, supervisor_vars>>

\* The write outcomes tried with an event: only SYN_REPORT makes a mouse
\* write; a keyboard emission writes once or twice, and at most one of the
\* two writes is made to fail.
MouseErrnos(ev) == IF ev.type = "EV_SYN" THEN Errnos ELSE {0}
ErrnoPairs == {<<e, 0>> : e \in Errnos} \cup {<<0, e>> : e \in Errnos}

\* ------------------------------------------------- Spec: the whole program
SupMouseEvents ==
    {[type |-> "EV_SYN", code |-> "SYN_REPORT", value |-> 0]}
SupKbdEvents ==
    {[type |-> "EV_KEY", keycode |-> "KEY_A", keystate |-> 1],
     [type |-> "EV_KEY", keycode |-> "KEY_A", keystate |-> 0]}
SupRank == <<"KEY_A">>

Init ==
    /\ devices = [p \in Paths |-> "none"]
    /\ cached_device_paths = {}
    /\ cached_devices = EmptyFn
    /\ managed_keyboards = EmptyFn
    /\ managed_mice = EmptyFn
    /\ available_keyboard_hids = KEYBOARD_HID_OUTPUTS
    /\ available_mouse_hids = MOUSE_HID_OUTPUTS
    /\ tasks = EmptyFn
    /\ last = NoStep

Next ==
    \/ \E failed \in SUBSET Paths : Tick(failed)
    \/ \E p \in Paths, kind \in DeviceKinds : Plug(p, kind)
    \/ \E p \in Paths : Unplug(p)
    \/ \E t \in TaskIds, outcome \in {"open_fail", "grab_fail", "ok"} :
          Connect(t, outcome)
    \/ \E t \in TaskIds, ev \in SupMouseEvents :
          \E errno \in MouseErrnos(ev) : MouseEvent(t, ev, errno)
    \/ \E t \in TaskIds, ev \in SupKbdEvents, e1 \in Errnos :
          KbdEvent(t, ev, SupRank, <<e1, 0>>)
    \/ \E t \in TaskIds : ReadError(t)
    \/ \E t \in TaskIds : DecodeError(t)
    \/ \E t \in TaskIds : DeliverCancel(t)

Spec == Init /\ [][Next]_vars

\* ------------------------- SpecIO: one keyboard and one mouse, both plugged
\* in for good and captured; the Sessions translate and write, the
\* Supervisor reaps and restarts them.
IOKbdEvents ==
    {[type |-> "EV_KEY", keycode |-> k, keystate |-> v] :
        k \in {"KEY_A", "KEY_APOSTROPHE", "KEY_LEFTSHIFT"}, v \in {0, 1}}
IOMouseEvents ==
    {[type |-> "EV_KEY", code |-> "BTN_RIGHT", value |-> 1],
     [type |-> "EV_KEY", code |-> "BTN_RIGHT", value |-> 0],
     [type |-> "EV_REL", code |-> "REL_X", value |-> 5],
     [type |-> "EV_SYN", code |-> "SYN_REPORT", value |-> 0]}
IORank == <<"KEY_A", "KEY_APOSTROPHE">>
KbdTask == <<1, 1>>
MouseTask == <<2, 1>>

Reading(s) == [s EXCEPT !.pc = "read", !.device = "grabbed"]

InitIO ==
    /\ devices = [p \in Paths |-> IF p = 1 THEN "keyboard"
                                  ELSE IF p = 2 THEN "mouse" ELSE "none"]
    /\ cached_device_paths = {1, 2}
    /\ cached_devices = [p \in {1, 2} |-> IF p = 1 THEN "keyboard" ELSE "mouse"]
    /\ managed_keyboards = [p \in {1} |-> [task |-> KbdTask, hid_output |-> 0]]
    /\ managed_mice = [p \in {2} |-> [task |-> MouseTask, hid_output |-> 1]]
    /\ available_keyboard_hids = {}
    /\ available_mouse_hids = {2}
    /\ tasks = [t \in {KbdTask, MouseTask} |->
                  IF t = KbdTask THEN Reading(NewTask("keyboard", 1, 0))
                                 ELSE Reading(NewTask("mouse", 2, 1))]
    /\ last = NoStep

NextIO ==
    \/ Tick({})
    \/ \E t \in TaskIds, outcome \in {"open_fail", "grab_fail", "ok"} :
          Connect(t, outcome)
    \/ \E t \in TaskIds, ev \in IOMouseEvents :
          \E errno \in MouseErrnos(ev) : MouseEvent(t, ev, errno)
    \/ \E t \in TaskIds, ev \in IOKbdEvents, errnos \in ErrnoPairs :
          KbdEvent(t, ev, IORank, errnos)
    \/ \E t \in TaskIds : ReadError(t)
    \/ \E t \in TaskIds : DecodeError(t)

SpecIO == InitIO /\ [][NextIO]_vars

\* ------- SpecPause: SpecIO with the keyboard emission of lines 493-505 in
\* two steps, the first write and, after time.sleep(0.01), the final write
\* the event loop's thread is not inside time.sleep (line 497), which
\* blocks it: no task and no timer callback runs meanwhile
LoopFree == \A t \in DOMAIN tasks : tasks[t].pc # "pause"
\* a Session that re-entered its read loop during the pause
KbdReady_reentrant(s) == s.pc \in {"read", "pause"}
\* the keyboard Session is suspended in async_read_loop (line 403) and the
\* loop's thread is free to resume it
KbdReady(s) == s.pc = "read" /\ LoopFree

\* an event is read and handled up to the first write_report of update_state;
\* when that was the intermediate report, the Session goes into time.sleep
KbdFirstWrite(t, ev, rank, errnos) ==
    /\ Runnable(t)
    /\ tasks[t].cls = "keyboard" /\ KbdReady(tasks[t])
    /\ LiveHandle(tasks[t].device)
    /\ \E r \in {KbdHandle(tasks[t].tr, ev, rank, errnos)} :
       LET s == tasks[t]
           n == Len(r.reports)
           s1 == [s EXCEPT !.tr = r.tr]
       IN IF n = 2
             THEN /\ tasks' = [tasks EXCEPT ![t] = [s1 EXCEPT !.pc = "pause"]]
                  /\ last' = [kind |-> "event", task |-> t, cls |-> "keyboard",
                              hid |-> s.hid_output_path, ev |-> ev,
                              reports |-> <<r.reports[1]>>,
                              order |-> OrderOf(r.tr.pressed_keys, rank),
                              errnos |-> <<errnos[1]>>,
                              raised |-> FALSE]
             ELSE /\ tasks' = [tasks EXCEPT ![t] =
                                  IF r.raised THEN CloseAndBreak(s1) ELSE s1]
                  /\ last' = [kind |-> "event", task |-> t, cls |-> "keyboard",
                              hid |-> s.hid_output_path, ev |-> ev,
                              reports |-> r.reports,
                              order |-> IF n = 0 THEN <<>>
                                        ELSE OrderOf(r.tr.pressed_keys, rank),
                              errnos |-> SubSeq(errnos, 1, n),
                              raised |-> r.raised]
    /\ UNCHANGED <<devices, supervisor_vars>>

\* time.sleep returns and the final report is written (lines 501-505)
KbdSecondWrite(t, rank, errno) ==
    /\ t \in DOMAIN tasks
    /\ tasks[t].pc = "pause"
    /\ \E r \in {update_state(tasks[t].tr,
                               OrderOf(tasks[t].tr.pressed_keys, rank),
                               <<0, errno>>)} :
          /\ tasks' = [tasks EXCEPT ![t] =
                          IF r.raised THEN CloseAndBreak(@)
                          ELSE [@ EXCEPT !.pc = "read"]]
          /\ last' = [kind |-> "second_write", task |-> t, cls |-> "keyboard",
                      hid |-> tasks[t].hid_output_path,
                      reports |-> <<r.reports[2]>>,
                      errnos |-> <<errno>>, raised |-> r.raised]
    /\ UNCHANGED <<devices, supervisor_vars>>

PauseRanks == {<<"KEY_A", "KEY_APOSTROPHE">>, <<"KEY_APOSTROPHE", "KEY_A">>}

NextPause ==
    \/ LoopFree /\ Tick({})
    \/ \E t \in TaskIds, outcome \in {"open_fail", "grab_fail", "ok"} :
          LoopFree /\ Connect(t, outcome)
    \/ \E t \in TaskIds, ev \in IOMouseEvents :
          \E errno \in MouseErrnos(ev) : LoopFree /\ MouseEvent(t, ev, errno)
    \/ \E t \in TaskIds, ev \in IOKbdEvents, rank \in PauseRanks, e1 \in Errnos :
          KbdFirstWrite(t, ev, rank, <<e1, 0>>)
    \/ \E t \in TaskIds, rank \in PauseRanks, errno \in Errnos :
          KbdSecondWrite(t, rank, errno)
    \/ \E t \in TaskIds : LoopFree /\ ReadError(t)
    \/ \E t \in TaskIds : LoopFree /\ DecodeError(t)

SpecPause == InitIO /\ [][NextPause]_vars

\* ------- SpecPool: keyboards only, which come and go at the paths and share
\* the one keyboard endpoint.  The monitor's sleep(5) always returns and a
\* task that is ready to run or cancelled is run by the loop: the tick, the
\* first run of a task and the delivery of a cancellation are weakly fair.
TickAny == \E failed \in SUBSET Paths : Tick(failed)
ConnectAny ==
    \E t \in TaskIds, outcome \in {"open_fail", "grab_fail", "ok"} :
        Connect(t, outcome)
DeliverAny == \E t \in TaskIds : DeliverCancel(t)

NextPool ==
    \/ TickAny
    \/ \E p \in Paths : Plug(p, "keyboard")
    \/ \E p \in Paths : Unplug(p)
    \/ ConnectAny
    \/ \E t \in TaskIds, ev \in SupKbdEvents, e1 \in Errnos :
          KbdEvent(t, ev, SupRank, <<e1, 0>>)
    \/ \E t \in TaskIds : ReadError(t)
    \/ DeliverAny

SpecPool ==
    /\ Init /\ [][NextPool]_vars
    /\ WF_vars(TickAny) /\ WF_vars(ConnectAny) /\ WF_vars(DeliverAny)

\* ----------------- SpecMouse: one captured mouse, its buttons and the clock
Delays == 1..MaxDelay
Syn == [type |-> "EV_SYN", code |-> "SYN_REPORT", value |-> 0]
MouseKeyEvents ==
    {[type |-> "EV_KEY", code |-> c, value |-> v] :
        c \in MouseButtons, v \in {0, 1, 2}}
\* the buttons other than BTN_LEFT that a run has touched so far
SideButtonsUsed(m) ==
    {c \in MouseButtons \ {"BTN_LEFT"} : m.button_debounce_buffer[c].present}
WithinButtons(m, ev) ==
    ev.type = "EV_KEY" =>
        Cardinality(SideButtonsUsed(m) \cup ({ev.code} \ {"BTN_LEFT"}))
            <= MaxSideButtons
MouseEvents ==
    MouseKeyEvents \cup {[type |-> "EV_REL", code |-> "REL_X", value |-> 5], Syn}
OneMouse == <<1, 1>>

InitMouse ==
    /\ devices = [p \in Paths |-> IF p = 1 THEN "mouse" ELSE "none"]
    /\ cached_device_paths = {1}
    /\ cached_devices = [p \in {1} |-> "mouse"]
    /\ managed_keyboards = EmptyFn
    /\ managed_mice = [p \in {1} |-> [task |-> OneMouse, hid_output |-> 1]]
    /\ available_keyboard_hids = KEYBOARD_HID_OUTPUTS
    /\ available_mouse_hids = {2}
    /\ tasks = [t \in {OneMouse} |-> Reading(NewTask("mouse", 1, 1))]
    /\ last = NoStep

NextMouse ==
    \/ \E ev \in MouseEvents :
          /\ WithinButtons(tasks[OneMouse].tr, ev)
          /\ MouseEvent(OneMouse, ev, 0)
    \/ \E d \in Delays : Advance(d)

SpecMouse == InitMouse /\ [][NextMouse]_vars

\* --------------- SpecRel: one captured mouse, its movement and its reports
RelValues == {-32768, -3, 5, 32767}
RelEvents ==
    {[type |-> "EV_REL", code |-> c, value |-> v] :
        c \in {"REL_X", "REL_Y", "REL_WHEEL"}, v \in RelValues}
      \cup {[type |-> "EV_KEY", code |-> "BTN_LEFT", value |-> v] : v \in {0, 1}}
      \cup {[type |-> "EV_KEY", code |-> "BTN_EXTRA", value |-> 1], Syn}

NextRel ==
    \E ev \in RelEvents :
       \E errno \in MouseErrnos(ev) : MouseEvent(OneMouse, ev, errno)

SpecRel == InitMouse /\ [][NextRel]_vars

\* ------------------ SpecKbd: one captured keyboard, modifiers and three keys
KbdKeys == {"KEY_A", "KEY_APOSTROPHE", "KEY_2"}
KbdModifiers ==
    {"KEY_LEFTSHIFT", "KEY_RIGHTSHIFT", "KEY_LEFTCTRL", "KEY_RIGHTMETA"}
KbdEvents ==
    {[type |-> "EV_KEY", keycode |-> k, keystate |-> v] :
        k \in KbdKeys \cup KbdModifiers, v \in {0, 1, 2}}
\* the iteration orders a set of the three keys may have
KbdRanks ==
    {r \in [1..Cardinality(KbdKeys) -> KbdKeys] :
        \A i, j \in DOMAIN r : i # j => r[i] # r[j]}
OneKbd == <<1, 1>>

InitKbd ==
    /\ devices = [p \in Paths |-> IF p = 1 THEN "keyboard" ELSE "none"]
    /\ cached_device_paths = {1}
    /\ cached_devices = [p \in {1} |-> "keyboard"]
    /\ managed_keyboards = [p \in {1} |-> [task |-> OneKbd, hid_output |-> 0]]
    /\ managed_mice = EmptyFn
    /\ available_keyboard_hids = {}
    /\ available_mouse_hids = MOUSE_HID_OUTPUTS
    /\ tasks = [t \in {OneKbd} |-> Reading(NewTask("keyboard", 1, 0))]
    /\ last = NoStep

NextKbd ==
    \E ev \in KbdEvents, rank \in KbdRanks :
        KbdEvent(OneKbd, ev, rank, <<0, 0>>)

SpecKbd == InitKbd /\ [][NextKbd]_vars

\* ------- SpecSlots: one captured keyboard and eight keys, one of them absent
\* from the usage table; the held set is iterated in one of eight orders
SlotKeys ==
    <<"KEY_FN", "KEY_A", "KEY_B", "KEY_C", "KEY_D", "KEY_E", "KEY_F", "KEY_G">>
Rotate(q, n) == [i \in 1..Len(q) |-> q[((i + n - 1) % Len(q)) + 1]]
SlotRanks == {Rotate(SlotKeys, n) : n \in 0..(Len(SlotKeys) - 1)}
SlotEvents ==
    {[type |-> "EV_KEY", keycode |-> SlotKeys[i], keystate |-> v] :
        i \in 1..Len(SlotKeys), v \in {0, 1}}

NextSlots ==
    \E ev \in SlotEvents, rank \in SlotRanks :
        KbdEvent(OneKbd, ev, rank, <<0, 0>>)

SpecSlots == InitKbd /\ [][NextSlots]_vars

\* ----- SpecShift: one captured keyboard, the keys of the shift-up and the
\* shift-down rules, a plain key, both Shift keys and one other modifier
ShiftKeys ==
    <<"KEY_APOSTROPHE", "KEY_2", "KEY_GRAVE", "KEY_6", "KEY_EQUAL",
      "KEY_SEMICOLON", "KEY_A">>
ShiftModifiers == {"KEY_LEFTSHIFT", "KEY_RIGHTSHIFT", "KEY_LEFTCTRL"}
ShiftRanks == {Rotate(ShiftKeys, n) : n \in 0..(Len(ShiftKeys) - 1)}
ShiftEvents ==
    {[type |-> "EV_KEY", keycode |-> k, keystate |-> v] :
        k \in Range(ShiftKeys) \cup ShiftModifiers, v \in {0, 1}}
WithinHeld(k, ev) ==
    (ev.keystate = 1 /\ ev.keycode \notin DOMAIN modifiers_map) =>
        Cardinality(k.pressed_keys \cup {ev.keycode}) <= MaxHeld

\* every write succeeds, or the first write of an emission meets errno 108
ShiftErrnos == {<<0, 0>>, <<ESHUTDOWN, 0>>}

NextShift ==
    \E ev \in ShiftEvents, rank \in ShiftRanks, errnos \in ShiftErrnos :
        /\ WithinHeld(tasks[OneKbd].tr, ev)
        /\ KbdEvent(OneKbd, ev, rank, errnos)

SpecShift == InitKbd /\ [][NextShift]_vars

\* ---- SpecRemap: remap applied to every key of the usage table and two keys
\* outside it, under every modifier mask a captured keyboard can hold
RemapKeys == DOMAIN hid_keys \cup {"KEY_FN", "KEY_F13"}
ModifierMasks == 0..255

\* a keyboard Session in its read loop whose modifier mask is one of masks
InitMasked(masks) ==
    /\ devices = [p \in Paths |-> IF p = 1 THEN "keyboard" ELSE "none"]
    /\ cached_device_paths = {1}
    /\ cached_devices = [p \in {1} |-> "keyboard"]
    /\ managed_keyboards = [p \in {1} |-> [task |-> OneKbd, hid_output |-> 0]]
    /\ managed_mice = EmptyFn
    /\ available_keyboard_hids = {}
    /\ available_mouse_hids = MOUSE_HID_OUTPUTS
    /\ \E m \in masks :
          tasks = [t \in {OneKbd} |->
                     [Reading(NewTask("keyboard", 1, 0)) EXCEPT !.tr.modifier = m]]
    /\ last = NoStep

InitRemap == InitMasked(ModifierMasks)

\* self.remap(keycode) is called
RemapCall(keycode) ==
    /\ last' = [kind |-> "remap", keycode |-> keycode,
                modifier |-> tasks[OneKbd].tr.modifier,
                result |-> remap(keycode, tasks[OneKbd].tr.modifier)]
    /\ UNCHANGED <<devices, supervisor_vars, tasks>>

NextRemap == \E keycode \in RemapKeys : RemapCall(keycode)

SpecRemap == InitRemap /\ [][NextRemap]_vars

\* ---- SpecTap: one captured keyboard whose modifier mask is fixed; one key
\* at a time is pressed, autorepeated and released, every write succeeds
TapKeys == RemapKeys
\* no modifier, Ctrl, either Shift, both Shifts, Shift with Ctrl, every
\* modifier, every modifier but the Shifts
TapMasks == {0, 1, 2, 3, 32, 34, 221, 255}
TapEvents ==
    {[type |-> "EV_KEY", keycode |-> k, keystate |-> v] :
        k \in TapKeys, v \in {0, 1, 2}}

NextTap ==
    \E ev \in TapEvents :
        /\ ev.keystate = 1 => tasks[OneKbd].tr.pressed_keys \subseteq {ev.keycode}
        /\ KbdEvent(OneKbd, ev, <<ev.keycode>>, <<0, 0>>)

InitTap == InitMasked(TapMasks)

SpecTap == InitTap /\ [][NextTap]_vars

\* ================================================================ claims
Assigned(managed_devices) ==
    {managed_devices[p].hid_output : p \in DOMAIN managed_devices}

PoolPartition(managed_devices, available_hids, pool) ==
    /\ available_hids \cap Assigned(managed_devices) = {}
    /\ \A p, q \in DOMAIN managed_devices :
          managed_devices[p].hid_output = managed_devices[q].hid_output => p = q
    /\ available_hids \cup Assigned(managed_devices) = pool
    /\ Cardinality(available_hids) + Cardinality(DOMAIN managed_devices)
          = Cardinality(pool)

\* C1: in every reachable state, for each class the free endpoints and the
\* endpoints recorded in the managed map are disjoint, no endpoint is
\* recorded for two managed Sessions, and together they are exactly the
\* configured pool, so |free| + |assigned| is constant.
C1_PoolPartition ==
    /\ PoolPartition(managed_keyboards, available_keyboard_hids,
                     KEYBOARD_HID_OUTPUTS)
    /\ PoolPartition(managed_mice, available_mouse_hids, MOUSE_HID_OUTPUTS)

\* A Session was cancelled and dropped from the map while another mouse
\* Session stays assigned and a mouse endpoint is back in the pool.
C1_Witness ==
    /\ \E t \in DOMAIN tasks : tasks[t].cancelled /\ tasks[t].cls = "mouse"
    /\ DOMAIN managed_mice # {}
    /\ available_mouse_hids # {}

\* A task that can still write reports
CanWrite(t) == tasks[t].pc # "done" /\ ~tasks[t].cancelled

ManagedAs(t, hid) ==
    \/ \E p \in DOMAIN managed_keyboards :
          managed_keyboards[p] = [task |-> t, hid_output |-> hid]
    \/ \E p \in DOMAIN managed_mice :
          managed_mice[p] = [task |-> t, hid_output |-> hid]

\* C2: no two tasks that can still write are bound to the same endpoint, and
\* every report is written by the task the managed map records for that
\* endpoint, which is not in the free pool: a cancelled Session, whose
\* endpoint went back to the pool, writes nothing more.
C2_OneWriterPerEndpoint ==
    /\ \A t, u \in DOMAIN tasks :
          (t # u /\ tasks[t].hid_output_path = tasks[u].hid_output_path)
             => ~(CanWrite(t) /\ CanWrite(u))
    /\ (last.kind = "event" /\ last.reports # <<>>) =>
          /\ ManagedAs(last.task, last.hid)
          /\ last.hid \notin available_keyboard_hids \cup available_mouse_hids

\* A cancelled Session has not exited yet and its endpoint is free again
C2_Witness ==
    \E t \in DOMAIN tasks :
       /\ tasks[t].cancelled
       /\ tasks[t].hid_output_path
            \in available_keyboard_hids \cup available_mouse_hids

\* C3 as stated: at most one Session (a task that has not finished,
\* cancelled or not) per input-device path.
C3_OneSessionPerPath ==
    \A t, u \in DOMAIN tasks :
       (t # u /\ tasks[t].input_device_path = tasks[u].input_device_path)
          => (tasks[t].pc = "done" \/ tasks[u].pc = "done")

\* ---------------------------------------------------------------- C4, C5
InSeq(x, q) == \E i \in 1..Len(q) : q[i] = x

\* The last step was a write that hit endpoint shutdown
ShutdownStep == last.kind = "event" /\ InSeq(ESHUTDOWN, last.errnos)

\* The last step was a write that failed, but not with endpoint shutdown
SwallowedStep ==
    /\ last.kind = "event"
    /\ \E i \in 1..Len(last.errnos) : last.errnos[i] # 0
    /\ ~InSeq(ESHUTDOWN, last.errnos)

TickStep == \E failed \in SUBSET Paths : Tick(failed)

\* The reap step gives back the endpoint of every finished managed Session
ReapReturns(managed_devices, available_hids) ==
    \A p \in DOMAIN managed_devices :
       tasks[managed_devices[p].task].pc = "done" =>
          LET r == reap_dead_tasks(managed_devices, available_hids, tasks)
          IN /\ p \notin DOMAIN r.managed
             /\ managed_devices[p].hid_output \in r.available

\* After a tick, no finished Session is left in the map: its path is absent
\* or bound to a task created by this tick, and its endpoint is free or
\* bound to a task created by this tick.
ReapedByTick(managed_devices, managed_after, available_after) ==
    \A p \in DOMAIN managed_devices :
       tasks[managed_devices[p].task].pc = "done" =>
          /\ p \in DOMAIN managed_after =>
                tasks'[managed_after[p].task].pc = "start"
          /\ \/ managed_devices[p].hid_output \in available_after
             \/ \E q \in DOMAIN managed_after :
                   /\ managed_after[q].hid_output = managed_devices[p].hid_output
                   /\ tasks'[managed_after[q].task].pc = "start"

\* A finished task handles no event and touches nothing
DoneIsFinal ==
    \A t \in DOMAIN tasks :
       tasks[t].pc = "done" =>
          /\ ~(last'.kind = "event" /\ last'.task = t)
          /\ t \in DOMAIN tasks' =>
                (tasks'[t] = tasks[t] \/ tasks'[t].pc = "start")

Emits(s, ev) ==
    IF s.cls = "mouse"
       THEN ev.type = "EV_SYN" /\ ev.code = "SYN_REPORT"
       ELSE /\ ev.type = "EV_KEY"
            /\ \/ ev.keycode \in DOMAIN modifiers_map
               \/ ev.keystate = 1 /\ ev.keycode \notin s.tr.pressed_keys
               \/ ev.keystate = 0 /\ ev.keycode \in s.tr.pressed_keys

\* The translator state the event leaves when every write succeeds
AfterGoodWrite(s, ev) ==
    IF s.cls = "mouse" THEN MouseHandle(s.tr, ev, 0).tr
    ELSE KbdHandle(s.tr, ev, IORank, <<0, 0>>).tr

\* C5: a write failing with an errno other than 108 is swallowed: the
\* Session keeps running on its device, stays in the managed map with its
\* endpoint, its translator state is what a successful write would have
\* left, and the next report-producing event it handles writes again.
C5_OtherErrorSwallowed ==
    /\ [](SwallowedStep =>
             /\ ~last.raised
             /\ tasks[last.task].pc = "read"
             /\ LiveHandle(tasks[last.task].device)
             /\ ManagedAs(last.task, last.hid))
    /\ [][/\ SwallowedStep' =>
               /\ tasks'[last'.task].tr
                     = AfterGoodWrite(tasks[last'.task], last'.ev)
               /\ tasks'[last'.task].device = tasks[last'.task].device
               /\ tasks'[last'.task].hid_output_path
                     = tasks[last'.task].hid_output_path
               /\ UNCHANGED supervisor_vars
          /\ (SwallowedStep /\ last'.kind = "event" /\ last'.task = last.task
                /\ Emits(tasks[last.task], last'.ev))
               => last'.reports # <<>>]_vars

\* A keyboard Session holding a key has just had a write swallowed
C5_Witness ==
    /\ SwallowedStep
    /\ last.cls = "keyboard"
    /\ tasks[last.task].pc = "read"
    /\ tasks[last.task].tr.pressed_keys # {}

\* ------------------------------------------------------------------- C6
U16(lo, hi) == lo + 256 * hi
Bit(mask, i) == (mask \div Pow2(i)) % 2
MouseStep ==
    last.kind = "event" /\ last.cls = "mouse" /\ last.task \in DOMAIN tasks
MouseSynStep ==
    MouseStep /\ last.ev.type = "EV_SYN" /\ last.ev.code = "SYN_REPORT"

\* the three 16-bit fields of a report
DeltasEncoded(r, m) ==
    /\ U16(r[2], r[3]) = m.move_x % 65536
    /\ U16(r[4], r[5]) = m.move_y % 65536
    /\ U16(r[6], r[7]) = m.scroll_y % 65536

C9_LastDeltaWins ==
    /\ [](MouseSynStep =>
            LET r == last.reports[1]
                m == tasks[last.task].tr
            IN /\ U16(r[2], r[3]) = last.frame.x % 65536
               /\ U16(r[4], r[5]) = last.frame.y % 65536
               /\ U16(r[6], r[7]) = last.frame.wheel % 65536
               /\ r[1] = m.btn
               /\ tasks[last.task].frame = NoFrame
               /\ tasks[last.task].pc = "read" =>
                     m.move_x = 0 /\ m.move_y = 0 /\ m.scroll_y = 0)
    /\ [][(MouseStep' /\ last'.ev.type \in {"EV_REL", "EV_SYN"}) =>
             tasks'[last'.task].tr.btn = tasks[last'.task].tr.btn]_vars

\* a frame in which an axis was written twice is reported: the drag of the
\* specification's second scenario
C9_Witness ==
    /\ MouseSynStep
    /\ last.frame.rewritten
    /\ last.reports = << <<1, 5, 0, 253, 255, 0, 0>> >>

\* ------------------------------------------------------------------- C7
BtnBitOf(code) ==
    CASE code = "BTN_LEFT" -> 0 [] code = "BTN_RIGHT" -> 1
      [] code = "BTN_MIDDLE" -> 2 [] code = "BTN_SIDE" -> 3
      [] code = "BTN_EXTRA" -> 4
MouseButtonStep ==
    /\ MouseStep
    /\ last.ev.type = "EV_KEY"
    /\ last.ev.code \in MouseButtons

\* C7: after an EV_KEY with value 1 (value 0) on a recognised button, that
\* button's bit of the mask is set (clear), whatever movement and button
\* events came before and whatever their timing.
C7_PressSetsReleaseClears ==
    (MouseButtonStep /\ last.ev.value \in {0, 1}) =>
        Bit(tasks[last.task].tr.btn, BtnBitOf(last.ev.code)) = last.ev.value

\* ------------------------------------------------------------------- C8
\* C8: an EV_KEY with value 2 on a recognised button leaves the button mask
\* as it was.
C8_AutorepeatIgnored ==
    [][(MouseButtonStep' /\ last'.ev.value = 2) =>
          tasks'[last'.task].tr.btn = tasks[last'.task].tr.btn]_vars

\* ------------------------------------------------------------------ C10
KbdModifierStep ==
    /\ last.kind = "event" /\ last.cls = "keyboard"
    /\ last.task \in DOMAIN tasks
    /\ last.ev.type = "EV_KEY"
    /\ last.ev.keycode \in DOMAIN modifiers_map

\* C10: a modifier key event with keystate 1 sets the key's bit of the
\* modifier mask, one with keystate 0 clears it, and each hands a report to
\* the writer; one with keystate 2 changes nothing of the translator and
\* hands no report to the writer.
C10_ModifierKeys ==
    [][KbdModifierStep' =>
         LET k == tasks[last'.task].tr
             k2 == tasks'[last'.task].tr
             i == modifiers_map[last'.ev.keycode]
         IN /\ last'.ev.keystate = 1 =>
                  Bit(k2.modifier, i) = 1 /\ last'.reports # <<>>
            /\ last'.ev.keystate = 0 =>
                  Bit(k2.modifier, i) = 0 /\ last'.reports # <<>>
            /\ last'.ev.keystate = 2 =>
                  k2 = k /\ last'.reports = <<>>]_vars

\* ------------------------------------------------------------------ C11
KbdStep ==
    /\ last.kind = "event" /\ last.cls = "keyboard"
    /\ last.task \in DOMAIN tasks
KbdKeyStep ==
    /\ KbdStep
    /\ last.ev.type = "EV_KEY"
    /\ last.ev.keycode \notin DOMAIN modifiers_map

\* C11: a non-modifier key event with keystate 1 adds the key to the held
\* set, one with keystate 0 removes it, one with keystate 2 leaves the set
\* alone; a report is handed to the writer exactly when the held set
\* changed, and when it did not change the whole translator state is as
\* before; the modifier mask never changes.
C11_HeldSet ==
    [][KbdKeyStep' =>
         LET k == tasks[last'.task].tr
             k2 == tasks'[last'.task].tr
             key == last'.ev.keycode
             v == last'.ev.keystate
         IN /\ v = 1 => k2.pressed_keys = k.pressed_keys \cup {key}
            /\ v = 0 => k2.pressed_keys = k.pressed_keys \ {key}
            /\ v = 2 => k2.pressed_keys = k.pressed_keys
            /\ (last'.reports # <<>>) <=> (k2.pressed_keys # k.pressed_keys)
            /\ k2.pressed_keys = k.pressed_keys => k2 = k
            /\ k2.modifier = k.modifier]_vars

\* an autorepeat of a held key has been read and nothing was written
C11_Witness ==
    /\ KbdKeyStep
    /\ last.ev.keystate = 2
    /\ last.ev.keycode \in tasks[last.task].tr.pressed_keys
    /\ last.reports = <<>>

\* ------------------------------------------------------------------ C12
KbdEmitStep == KbdStep /\ last.reports # <<>>
FinalReport == last.reports[Len(last.reports)]
\* the non-zero remapped codes of the held keys, in iteration order
NonZeroCodes(order, modifier) ==
    SelectSeq([i \in 1..Len(order) |-> remap(order[i], modifier).code], NonZero)

\* C12: in the final report of every emission byte 1 is 0 and bytes 2..7
\* are the first six non-zero remapped codes of the held keys in iteration
\* order, padded with zeros.
C12_FirstSixNonZero ==
    KbdEmitStep =>
        LET codes == NonZeroCodes(last.order, tasks[last.task].tr.modifier)
        IN /\ FinalReport[2] = 0
           /\ \A i \in 1..6 :
                 FinalReport[i + 2] = IF i <= Len(codes) THEN codes[i] ELSE 0

\* ------------------------------------------------------------------ C13
ShiftUpKeys == {"KEY_APOSTROPHE", "KEY_GRAVE", "KEY_EQUAL"}
ShiftDownKeys == {"KEY_2", "KEY_6", "KEY_SEMICOLON"}
ShiftHeld(modifier) == Bit(modifier, 1) = 1 \/ Bit(modifier, 5) = 1
KeySlots(r) == SubSeq(r, 3, 8)
PaddedCodes(order, modifier) ==
    SubSeq(NonZeroCodes(order, modifier) \o <<0, 0, 0, 0, 0, 0>>, 1, 6)
\* the emission of the last step went through a shift-up rule
ShiftUpEmission ==
    /\ KbdEmitStep
    /\ ~ShiftHeld(tasks[last.task].tr.modifier)
    /\ Range(last.order) \cap ShiftUpKeys # {}

\* C13: an emission with a held key of a shift-up rule and no Shift bit in
\* the mask hands exactly two reports to the writer: first 02 00 00 00 00 00
\* 00 00, then one whose byte 0 is the stored mask with bit 1 forced on,
\* whose byte 1 is 0 and whose key slots are the remapped codes of the held
\* keys in iteration order; KEY_APOSTROPHE alone gives 02 00 <usage of KEY_7>.
\* (Only when the first write meets errno 108 does the emission stop after
\* the first report, the Session ending there.)
C13_ShiftUpTwoReports ==
    ShiftUpEmission =>
        LET m == tasks[last.task].tr.modifier
        IN /\ last.reports[1] = <<2, 0, 0, 0, 0, 0, 0, 0>>
           /\ last.errnos[1] = ESHUTDOWN =>
                 Len(last.reports) = 1 /\ tasks[last.task].pc = "done"
           /\ last.errnos[1] # ESHUTDOWN =>
              /\ Len(last.reports) = 2
              /\ last.reports[2][1] = m + 2
              /\ last.reports[2][2] = 0
              /\ KeySlots(last.reports[2]) = PaddedCodes(last.order, m)
              /\ (last.order = <<"KEY_APOSTROPHE">> /\ m = 0) =>
                    last.reports[2] = <<2, 0, hid_keys["KEY_7"], 0, 0, 0, 0, 0>>

\* KEY_GRAVE is pressed while Ctrl and KEY_A are held
C13_Witness ==
    /\ ShiftUpEmission
    /\ last.ev.keycode = "KEY_GRAVE"
    /\ tasks[last.task].tr.modifier = 1
    /\ Len(last.order) = 2
    /\ Len(last.reports) = 2

\* ------------------------------------------------------------------ C14
ClearShift(m) == m - 2 * Bit(m, 1) - 32 * Bit(m, 5)
\* the emission of the last step went through a shift-down rule
ShiftDownEmission ==
    /\ KbdEmitStep
    /\ ShiftHeld(tasks[last.task].tr.modifier)
    /\ Range(last.order) \cap ShiftDownKeys # {}

\* C14: an emission with a held key of a shift-down rule and a Shift bit in
\* the mask hands one report to the writer, whose byte 0 is the stored mask
\* with bits 1 and 5 cleared, while the stored mask keeps its Shift bits; an
\* emission with a Shift bit and no such key hands one report whose byte 0
\* is the stored mask; a non-modifier key event never changes the stored
\* mask.
C14_ShiftDown ==
    /\ [](KbdEmitStep =>
            LET m == tasks[last.task].tr.modifier
            IN /\ ShiftDownEmission =>
                    /\ Len(last.reports) = 1
                    /\ last.reports[1][1] = ClearShift(m)
                    /\ last.reports[1][1] # m
               /\ (ShiftHeld(m) /\ ~ShiftDownEmission) =>
                    /\ Len(last.reports) = 1
                    /\ last.reports[1][1] = m)
    /\ [][KbdKeyStep' =>
            tasks'[last'.task].tr.modifier = tasks[last'.task].tr.modifier]_vars

\* KEY_6 is pressed while both Shift keys and Ctrl are held: byte 0 is 01
C14_Witness ==
    /\ ShiftDownEmission
    /\ last.ev.keycode = "KEY_6" /\ last.ev.keystate = 1
    /\ tasks[last.task].tr.modifier = 35
    /\ last.reports[1][1] = 1

\* ------------------------------------------------------------------ C15
\* the rule table as the specification lists it: the key a key is rewritten
\* to and the transient flag of the rule ("up", "down" or "none")
RuleOf(key, shift) ==
    LET to(t, f) == [key |-> t, flag |-> f]
    IN CASE key = "KEY_LEFTBRACE" -> to("KEY_RIGHTBRACE", "none")
         [] key = "KEY_RIGHTBRACE" -> to("KEY_BACKSLASH", "none")
         [] shift /\ key = "KEY_7" -> to("KEY_6", "none")
         [] shift /\ key = "KEY_8" -> to("KEY_APOSTROPHE", "none")
         [] shift /\ key = "KEY_9" -> to("KEY_8", "none")
         [] shift /\ key = "KEY_0" -> to("KEY_9", "none")
         [] shift /\ key = "KEY_EQUAL" -> to("KEY_SEMICOLON", "none")
         [] shift /\ key = "KEY_GRAVE" -> to("KEY_EQUAL", "none")
         [] shift /\ key = "KEY_MINUS" -> to("KEY_RO", "none")
         [] shift /\ key = "KEY_BACKSLASH" -> to("KEY_YEN", "none")
         [] shift /\ key = "KEY_APOSTROPHE" -> to("KEY_2", "none")
         [] shift /\ key = "KEY_2" -> to("KEY_LEFTBRACE", "down")
         [] shift /\ key = "KEY_6" -> to("KEY_EQUAL", "down")
         [] shift /\ key = "KEY_SEMICOLON" -> to("KEY_APOSTROPHE", "down")
         [] ~shift /\ key = "KEY_BACKSLASH" -> to("KEY_RO", "none")
         [] ~shift /\ key = "KEY_APOSTROPHE" -> to("KEY_7", "up")
         [] ~shift /\ key = "KEY_GRAVE" -> to("KEY_LEFTBRACE", "up")
         [] ~shift /\ key = "KEY_EQUAL" -> to("KEY_MINUS", "up")
         [] OTHER -> to(key, "none")

\* C15: remap of a key absent from the usage table is 0 with no flag; of any
\* other key it is the usage code of the key the rule table names for the
\* key and the Shift state (the key itself when no rule applies), got by one
\* application of the table, with exactly the flag of that rule set and
\* never both flags.
C15_RemapTable ==
    last.kind = "remap" =>
        LET rule == RuleOf(last.keycode, ShiftHeld(last.modifier))
            r == last.result
        IN /\ last.keycode \notin DOMAIN hid_keys =>
                r = [code |-> 0, up |-> FALSE, down |-> FALSE]
           /\ last.keycode \in DOMAIN hid_keys =>
                /\ r.code = hid_keys[rule.key]
                /\ r.up = (rule.flag = "up")
                /\ r.down = (rule.flag = "down")
           /\ ~(r.up /\ r.down)

\* KEY_7 with right Shift held gives the code of KEY_6, not of KEY_EQUAL
C15_Witness ==
    /\ last.kind = "remap"
    /\ last.keycode = "KEY_7" /\ last.modifier = 32
    /\ last.result.code = hid_keys["KEY_6"]
    /\ last.result.code # hid_keys["KEY_EQUAL"]

\* ------------------------------------------------------------------ C16
\* the emission that leaves no key held ends in the all-zero report
C16_EndsWithZero ==
    (KbdEmitStep /\ tasks[last.task].tr.pressed_keys = {}
                 /\ tasks[last.task].tr.modifier = 0)
        => FinalReport = Zeros8

\* C16: with no modifier events, the reports emitted from a fresh translator
\* begin with the all-zero report (the first event's emission starts with
\* it) and end with it (the emission that empties the held set ends in it).
C16_BeginsAndEndsZero ==
    /\ [](C16_EndsWithZero)
    /\ [][(last = NoStep /\ KbdEmitStep') => last'.reports[1] = Zeros8]_vars

\* ------------------------------------------------------------------ C17
\* the report of one held key: mask, reserved byte, the code, five zeros
TapReport(mask, code) == <<mask, 0, code, 0, 0, 0, 0, 0>>

\* C17: for a non-modifier key K whose rule sets no shift transient under
\* the fixed modifier mask, the press of K with nothing held emits exactly
\* the report (mask, 0, remapped code of K, 0...), every autorepeat of the
\* held K emits nothing and changes nothing, and the release of the held K
\* emits exactly the report (mask, 0, 0...): two reports in all.
C17_TapTwoReports ==
    [][KbdKeyStep' =>
         LET ev == last'.ev
             K == ev.keycode
             k == tasks[OneKbd].tr
             k1 == tasks'[OneKbd].tr
         IN RuleOf(K, ShiftHeld(k.modifier)).flag = "none" =>
              /\ (ev.keystate = 1 /\ k.pressed_keys = {}) =>
                    /\ last'.reports =
                         <<TapReport(k.modifier, remap(K, k.modifier).code)>>
                    /\ k1.pressed_keys = {K} /\ k1.modifier = k.modifier
              /\ (ev.keystate = 2 /\ k.pressed_keys = {K}) =>
                    /\ last'.reports = <<>>
                    /\ k1 = k
              /\ (ev.keystate = 0 /\ k.pressed_keys = {K}) =>
                    /\ last'.reports = <<TapReport(k.modifier, 0)>>
                    /\ k1.pressed_keys = {} /\ k1.modifier = k.modifier
      ]_vars

\* KEY_7 was pressed and is released with left Shift and left Ctrl held
C17_Witness ==
    /\ KbdKeyStep
    /\ last.ev.keycode = "KEY_7" /\ last.ev.keystate = 0
    /\ tasks[OneKbd].tr.modifier = 3
    /\ tasks[OneKbd].tr.pressed_keys = {}
    /\ last.reports = <<TapReport(3, 0)>>

\* ------------------------------------------------------------------ C18
\* a cancelling step ended the Session without leaving a handle open
C18_CancelCloses ==
    last.kind = "cancel" => (last.task \notin DOMAIN tasks /\ last.device = "none")
\* a cancelled Session handles no event
C18_NoReportAfterCancel ==
    [][\A t \in DOMAIN tasks :
          tasks[t].cancelled =>
             /\ ~(last'.kind = "event" /\ last'.task = t)
             /\ t \in DOMAIN tasks' => tasks'[t].pc = tasks[t].pc]_vars

\* C18: once a Session's task is cancelled, at the read await or at the
\* retry sleep, it handles no further event and writes no report, the
\* cancellation ends the task, and no device handle of it is left open.
C18_CancelTerminal ==
    /\ [](C18_CancelCloses)
    /\ C18_NoReportAfterCancel

\* ------------------------------------------------------------------ C19
\* C19: a Session whose task has terminated holds no device handle: one that
\* left its loop has closed it, and one ended by a cancellation that found
\* it holding the grab has closed it too.
C19_TerminatedClosed ==
    /\ \A t \in DOMAIN tasks : tasks[t].pc = "done" => tasks[t].device = "none"
    /\ (last.kind = "cancel" /\ last.held = "grabbed") => last.device = "none"

\* ------------------------------------------------------------------ C20
\* every managed Session that has begun to run and not finished holds the grab
C20_ManagedGrabbed ==
    \A t \in ManagedTasks \cap DOMAIN tasks :
        tasks[t].pc \in {"sleep", "read"} => tasks[t].device = "grabbed"
\* an event is handled only by a Session that holds the grab
C20_ReadsGrabbed ==
    [][last'.kind = "event" => tasks[last'.task].device = "grabbed"]_vars

\* C20: a Session in the managed map, in its retry loop or in its read
\* loop, holds the exclusive grab, and events are read and translated only
\* under the grab.
C20_AlwaysGrabbed ==
    /\ [](C20_ManagedGrabbed)
    /\ C20_ReadsGrabbed

\* ------------------------------------------------------------------ C21
\* C21: an exception other than OSError and CancelledError in a keyboard
\* Session's loop resets the translator (modifier 0, held set empty, both
\* flags false) and changes nothing else: the Session is still reading the
\* same device for the same endpoint, not cancelled, still in the managed
\* map, and so able to handle the next event.
C21_ResetAndContinue ==
    [][(last'.kind = "decode_error" /\ last'.cls = "keyboard") =>
         LET t == last'.task IN
         /\ t \in DOMAIN tasks'
         /\ tasks'[t] = [tasks[t] EXCEPT
                            !.tr = [modifier |-> 0, pressed_keys |-> {},
                                    is_shift_up |-> FALSE,
                                    is_shift_down |-> FALSE]]
         /\ tasks'[t].pc = "read" /\ LiveHandle(tasks'[t].device)
         /\ ~tasks'[t].cancelled
         /\ managed_keyboards' = managed_keyboards
         /\ \E p \in DOMAIN managed_keyboards' :
               /\ managed_keyboards'[p].task = t
               /\ managed_keyboards'[p].hid_output = tasks'[t].hid_output_path
      ]_vars

\* the exception found a key held and a modifier set
C21_Witness ==
    /\ last.kind = "decode_error" /\ last.cls = "keyboard"
    /\ last.tr.pressed_keys # {} /\ last.tr.modifier # 0
    /\ tasks[last.task].tr.pressed_keys = {} /\ tasks[last.task].tr.modifier = 0
    /\ tasks[last.task].pc = "read"

\* ------------------------------------------------------------------ C22
\* the present devices of a class that have no Session
Unmanaged(kind, managed) ==
    {p \in Paths : devices[p] = kind /\ p \notin DOMAIN managed}
\* C22: a device whose open failed in one tick's enumeration is retried at
\* the next tick: when that tick directly follows, every open succeeds, the
\* device is still present and its class has a free endpoint for every
\* present device without a Session, the device has a Session after it,
\* whether or not the set of device paths changed in between.
C22_RetriedNextTick ==
    [][(last.kind = "tick" /\ last'.kind = "tick" /\ last'.failed = {}) =>
         \A p \in last.failed :
            /\ (/\ devices[p] = "keyboard"
                /\ Cardinality(available_keyboard_hids) >=
                      Cardinality(Unmanaged("keyboard", managed_keyboards)))
                  => p \in DOMAIN managed_keyboards'
            /\ (/\ devices[p] = "mouse"
                /\ Cardinality(available_mouse_hids) >=
                      Cardinality(Unmanaged("mouse", managed_mice)))
                  => p \in DOMAIN managed_mice'
      ]_vars

\* ------------------------------------------------------------------ C23
\* the paths of a class this tick enumerated (the cache the tick leaves)
Enumerated(kind) == {p \in DOMAIN cached_devices' : cached_devices'[p] = kind}
\* the reconcile step of one class, seen across a tick: managed paths whose
\* task has not finished and that are no longer enumerated lose their entry,
\* have their task cancelled and their endpoint in the class's pool and in
\* no other; those still enumerated keep task, endpoint and Session state;
\* nothing else enters the pool but endpoints of reaped Sessions
ReconcileRemoves(kind, managed, managed1, available, available1, other1) ==
    LET live == {p \in DOMAIN managed : tasks[managed[p].task].pc # "done"}
        gone == live \ Enumerated(kind)
        kept == live \cap Enumerated(kind)
        dead == DOMAIN managed \ live
    IN /\ \A p \in gone :
            /\ p \notin DOMAIN managed1
            /\ managed[p].task \in DOMAIN tasks'
            /\ tasks'[managed[p].task].cancelled
            /\ managed[p].hid_output \in available1
            /\ managed[p].hid_output \notin other1
       /\ \A p \in kept :
            /\ p \in DOMAIN managed1
            /\ managed1[p] = managed[p]
            /\ tasks'[managed[p].task] = tasks[managed[p].task]
            /\ managed[p].hid_output \notin available1
       /\ available1 \subseteq
            available \cup {managed[p].hid_output : p \in gone \cup dead}

\* C23: in every tick, for both classes, the reconcile step removes exactly
\* the managed paths that are no longer enumerated, cancelling their tasks
\* and returning their endpoints to their own pool, and leaves the managed
\* paths that are still enumerated untouched.
C23_ReconcileRemoved ==
    [][last'.kind = "tick" =>
         /\ ReconcileRemoves("keyboard", managed_keyboards, managed_keyboards',
                             available_keyboard_hids, available_keyboard_hids',
                             available_mouse_hids')
         /\ ReconcileRemoves("mouse", managed_mice, managed_mice',
                             available_mouse_hids, available_mouse_hids',
                             available_keyboard_hids')
      ]_vars

\* a tick cancelled one mouse Session, whose endpoint is free again, and
\* kept another
C23_Witness ==
    /\ last.kind = "tick"
    /\ \E t \in DOMAIN tasks :
          /\ tasks[t].cls = "mouse" /\ tasks[t].cancelled
          /\ tasks[t].input_device_path \notin DOMAIN managed_mice
          /\ tasks[t].hid_output_path \in available_mouse_hids
    /\ \E p \in DOMAIN managed_mice :
          /\ managed_mice[p].task \in DOMAIN tasks
          /\ tasks[managed_mice[p].task].pc = "read"

\* ------------------------------------------------------------------ C24
\* C24 as stated: once an emission is over both transient flags are false.
C24_FlagsClearAfterEmission ==
    KbdEmitStep =>
        /\ ~tasks[last.task].tr.is_shift_up
        /\ ~tasks[last.task].tr.is_shift_down

\* C24 amended: once an emission is over, the shift-up flag tells whether
\* that emission met a shift-up rule (no Shift bit in the mask and a held
\* key with such a rule) and the shift-down flag whether it met a shift-down
\* rule, whatever the flags were before it; and an event that emits nothing
\* leaves the flags alone.
C24_FlagsOfLastEmission ==
    /\ [](KbdEmitStep =>
            /\ tasks[last.task].tr.is_shift_up = ShiftUpEmission
            /\ tasks[last.task].tr.is_shift_down = ShiftDownEmission)
    /\ [][(KbdStep' /\ last'.reports = <<>>) =>
            /\ tasks'[last'.task].tr.is_shift_up = tasks[last'.task].tr.is_shift_up
            /\ tasks'[last'.task].tr.is_shift_down =
                  tasks[last'.task].tr.is_shift_down]_vars

\* KEY_APOSTROPHE was pressed with no Shift: the emission is over and the
\* shift-up flag is still set
C24_Witness ==
    /\ ShiftUpEmission
    /\ last.ev.keycode = "KEY_APOSTROPHE" /\ last.ev.keystate = 1
    /\ Len(last.reports) = 2
    /\ tasks[last.task].tr.is_shift_up
    /\ ~tasks[last.task].tr.is_shift_down

\* ------------------------------------------------------------------ C25
\* C25: while a keyboard Session is between the intermediate shift-only
\* report and the final report of one emission, it handles no event and
\* writes no other report, its translator state stays as it is, and it
\* leaves that position only by writing the final report, whatever the
\* other Sessions and the Supervisor do.
C25_ShiftUpAtomic ==
    [][\A t \in DOMAIN tasks :
          tasks[t].pc = "pause" =>
             /\ ~(last'.kind = "event" /\ last'.task = t)
             /\ t \in DOMAIN tasks'
             /\ tasks'[t].tr = tasks[t].tr
             /\ ~tasks'[t].cancelled
             /\ tasks'[t].pc # "pause" =>
                   /\ last'.kind = "second_write" /\ last'.task = t
                   /\ Len(last'.reports) = 1
                   /\ last'.reports[1][1] = BitOr(tasks[t].tr.modifier, 2)
      ]_vars

\* the final report of KEY_APOSTROPHE alone has been written after the pause
C25_Witness ==
    /\ last.kind = "second_write"
    /\ last.reports = <<TapReport(2, hid_keys["KEY_7"])>>
    /\ tasks[last.task].pc = "read"

\* ------------------------------------------------------------------ C26
\* the reports of an emission that tests the shift-down flag before the
\* shift-up flag: shift-down clears the Shift bits of byte 0 and there is
\* no intermediate report; otherwise shift-up gives the intermediate report
\* and forces left Shift on
ReportsDownFirst(k, order) ==
    LET final(m) == KbdReport(m, [i \in 1..Len(order) |->
                                     remap(order[i], k.modifier).code])
    IN IF k.is_shift_down THEN <<final(ClearShift(k.modifier))>>
       ELSE IF k.is_shift_up
          THEN <<TapReport(2, 0), final(BitOr(k.modifier, 2))>>
       ELSE <<final(k.modifier)>>

\* C26: in every emission the two transient flags are never both set, the
\* shift-up flag is set only with no Shift bit in the mask and the
\* shift-down flag only with one, and the reports written are those an
\* emission testing the flags in the other order would write.
C26_FlagsExclusive ==
    KbdEmitStep =>
        LET k == tasks[last.task].tr
        IN /\ ~(k.is_shift_up /\ k.is_shift_down)
           /\ k.is_shift_up => ~ShiftHeld(k.modifier)
           /\ k.is_shift_down => ShiftHeld(k.modifier)
           /\ last.reports =
                 SubSeq(ReportsDownFirst(k, last.order), 1, Len(last.reports))
           /\ last.errnos[1] # ESHUTDOWN =>
                 last.reports = ReportsDownFirst(k, last.order)

\* a key with a shift-up rule and a key with a shift-down rule are both
\* held and no Shift is: only the shift-up flag is set
C26_Witness ==
    /\ KbdEmitStep
    /\ tasks[last.task].tr.pressed_keys = {"KEY_APOSTROPHE", "KEY_2"}
    /\ ~ShiftHeld(tasks[last.task].tr.modifier)
    /\ tasks[last.task].tr.is_shift_up
    /\ ~tasks[last.task].tr.is_shift_down
    /\ Len(last.reports) = 2

\* ------------------------------------------------------------------ C27
\* the managed paths of a class whose task has ended and that the tick
\* still enumerates
Ended(kind, managed) ==
    {p \in DOMAIN managed : tasks[managed[p].task].pc = "done"}
        \cap Enumerated(kind)
\* the class's pool once the ended Sessions are reaped
PoolAfterReap(managed, available) ==
    available \cup {managed[p].hid_output :
                      p \in {q \in DOMAIN managed :
                               tasks[managed[q].task].pc = "done"}}
\* the enumerated paths of a class without a running Session after the reap
Contenders(kind, managed) ==
    Enumerated(kind) \ {p \in DOMAIN managed :
                           tasks[managed[p].task].pc # "done"}
\* after the tick the path is managed with a task that has not run yet, in
\* its initial state, on an endpoint of the pool
Restarted(kind, p, managed1, pool) ==
    /\ p \in DOMAIN managed1
    /\ managed1[p].task \in DOMAIN tasks'
    /\ managed1[p].hid_output \in pool
    /\ tasks'[managed1[p].task] = NewTask(kind, p, managed1[p].hid_output)

\* C27 as stated: the tick that reaps an ended Session of a path still
\* enumerated starts a fresh Session for that path.
C27_RestartSameTick ==
    [][last'.kind = "tick" =>
         /\ \A p \in Ended("keyboard", managed_keyboards) :
               Restarted("keyboard", p, managed_keyboards',
                         PoolAfterReap(managed_keyboards, available_keyboard_hids))
         /\ \A p \in Ended("mouse", managed_mice) :
               Restarted("mouse", p, managed_mice',
                         PoolAfterReap(managed_mice, available_mouse_hids))
      ]_vars

\* C27 amended: it does so when the class's pool after the reap holds an
\* endpoint for every enumerated path of the class without a running
\* Session.
C27_RestartIfEnoughEndpoints ==
    [][last'.kind = "tick" =>
         /\ Cardinality(Contenders("keyboard", managed_keyboards)) <=
               Cardinality(PoolAfterReap(managed_keyboards, available_keyboard_hids))
            => \A p \in Ended("keyboard", managed_keyboards) :
                  Restarted("keyboard", p, managed_keyboards',
                            PoolAfterReap(managed_keyboards, available_keyboard_hids))
         /\ Cardinality(Contenders("mouse", managed_mice)) <=
               Cardinality(PoolAfterReap(managed_mice, available_mouse_hids))
            => \A p \in Ended("mouse", managed_mice) :
                  Restarted("mouse", p, managed_mice',
                            PoolAfterReap(managed_mice, available_mouse_hids))
      ]_vars

\* a tick reaped the task of a keyboard path and the path is managed again
\* with a task that has not run yet
C27_Witness ==
    /\ last.kind = "tick"
    /\ \E t \in last.reaped :
          /\ t[1] \in DOMAIN managed_keyboards
          /\ managed_keyboards[t[1]].task \in DOMAIN tasks
          /\ tasks[managed_keyboards[t[1]].task] =
                NewTask("keyboard", t[1], managed_keyboards[t[1]].hid_output)

\* ------------------------------------------------------------------ C28
\* p is a present keyboard that the cache lists and that has no Session,
\* the cache is up to date, the keyboard pool is not empty once the ended
\* Sessions are reaped, and no other listed keyboard lacks a running Session
Waiting(p) ==
    /\ devices[p] = "keyboard"
    /\ cached_device_paths = {q \in Paths : devices[q] # "none"}
    /\ p \in DOMAIN cached_devices /\ cached_devices[p] = "keyboard"
    /\ p \notin DOMAIN managed_keyboards
    /\ PoolAfterReap(managed_keyboards, available_keyboard_hids) # {}
    /\ {q \in DOMAIN cached_devices : cached_devices[q] = "keyboard"} \
          {q \in DOMAIN managed_keyboards :
              tasks[managed_keyboards[q].task].pc # "done"} = {p}

\* a tick gives a Session to the only contender when the pool is not empty
AssignsLoneContender(kind, managed, managed1, available) ==
    \A p \in Enumerated(kind) \ DOMAIN managed :
        (/\ PoolAfterReap(managed, available) # {}
         /\ Contenders(kind, managed) = {p})
           => Restarted(kind, p, managed1, PoolAfterReap(managed, available))

\* C28: a tick at which an enumerated device without a Session is the only
\* contender of its class and the class's pool is not empty after the reap
\* gives it an endpoint and starts its Session; and, ticks being weakly
\* fair, a keyboard in that situation does not stay in it for ever without
\* a Session.
C28_SkippedNotForgotten ==
    /\ [][last'.kind = "tick" =>
            /\ AssignsLoneContender("keyboard", managed_keyboards,
                                    managed_keyboards', available_keyboard_hids)
            /\ AssignsLoneContender("mouse", managed_mice,
                                    managed_mice', available_mouse_hids)]_vars
    /\ \A p \in Paths :
          Waiting(p) ~> (p \in DOMAIN managed_keyboards \/ ~Waiting(p))

\* a tick reaped the Session of a keyboard that is gone and gave the
\* endpoint it held to the keyboard at the other path
C28_Witness ==
    /\ last.kind = "tick"
    /\ \E t \in last.reaped, p \in DOMAIN managed_keyboards :
          /\ devices[t[1]] = "none"
          /\ p # t[1]
          /\ managed_keyboards[p].task \in DOMAIN tasks
          /\ tasks[managed_keyboards[p].task] =
                NewTask("keyboard", p, managed_keyboards[p].hid_output)
====
